---- MODULE Spec2Model ----
(***************************************************************************)
(* Verification model of the dex-aggregator quote pipeline:                *)
(*   entities.Pair / entities.Route      constant-product math, impact     *)
(*   services.PriceService.GetPrices     per-venue fan-out and join        *)
(*   services.RouterService              best route, split, slippage       *)
(*   cache.InMemoryCache                 short-TTL snapshot cache          *)
(*   handlers.QuoteHandler.GetQuote      HTTP boundary                     *)
(*                                                                         *)
(* *big.Int values are modelled by TLA+ integers.  TLC evaluates integers  *)
(* in 32 bits, so reserve and amount domains are small and the 10^15       *)
(* probe of calculateSpotAmount is scaled down (see testAmount).  The fee  *)
(* denominator 10000 and every other constant of the source is kept.       *)
(***************************************************************************)
EXTENDS Integers, Sequences, FiniteSets, TLC

\* ------------------------------------------------------------------------
\* Bounds of the model
\* ------------------------------------------------------------------------
MaxReserve == 12
MaxMathAmount == 12

\* largest factor by which a claim scales the reserves of a pair
MaxScale == 3

\* the probe of Route.calculateSpotAmount: 10^15 in the source, scaled to the
\* model's amounts
MaxProbe == 10

\* ------------------------------------------------------------------------
\* Values
\* ------------------------------------------------------------------------
\* a nil *big.Int
NilInt == -1000000

\* testAmount of Route.calculateSpotAmount
testAmount == MaxProbe

\* token addresses (20-byte values, ordered as their hex rendering)
TokenA == 1
TokenB == 2
TokenC == 3

\* fees a snapshot can carry: V2 family 30, curve default 4, test tiers 5 and
\* 100, V3 tiers 100/500/3000/10000 (hundredths of a bip stored in Fee)
FeeSet == {0, 4, 5, 30, 100, 500, 3000, 9999, 10000}

VARIABLES
    pc,          \* position of the operation under way
    p,           \* SpecMath: the receiver *Pair of GetAmountOut
    amountIn,    \* the amountIn argument
    tokenIn,     \* the tokenIn argument
    amountOut,   \* SpecMath: the value returned by GetAmountOut
    tokenOut,    \* the tokenOut argument
    slippageBps, \* the slippageBps argument of GetSmartQuote
    snaps,       \* the snapshot each venue task obtains for tokenIn -> tokenOut
                 \* (the task's cachedPair / pair; ErrPair: the adapter failed)
    intermediateTokens, \* SpecRouter: argument of GetMultiHopQuote
    hopSnaps,    \* SpecRouter: the snapshots obtained for the two hops
    prices,      \* the results GetPrices returned for tokenIn -> tokenOut
    ret,         \* the (quote, err) returned by the router operation
    chain,       \* Spec: what each adapter's GetPairByTokens answers for the
                 \* pair TokenA/TokenB
    cache,       \* Spec: InMemoryCache.pairs, key -> cachedPair
    now,         \* Spec: time.Now(), in seconds
    task,        \* Spec: position of each venue task of GetPrices
    results,     \* Spec: the results slice of the GetPrices call in flight
    wg,          \* Spec: the counter of the sync.WaitGroup
    writer,      \* Spec: for each slot of results, the task that wrote it
    firstDone,   \* Spec: the venue task that called wg.Done first
    pricesErr,   \* Spec: the error GetPrices returned
    resp,        \* Spec: the HTTP response written by the handler
    served,      \* Spec: number of requests answered so far
    hist,        \* Spec: the first request answered on a context that was
                 \* not cancelled, its quote and response
    cachePrices, \* InMemoryCache.prices, key -> cachedPrice
    cacheRet,    \* SpecCache: the cache call made last and what it returned
    written,     \* SpecCache: per map and key, the value, time and ttl of the
                 \* last Set that no later Set or Delete followed
    cancelled,   \* Spec: the context of the request in flight is done
    token,       \* SpecPrice: the token of the price request
    quotes,      \* SpecPrice: what GetPrices returns for each (tokenIn,
                 \* tokenOut, amountIn) GetTokenPrice can ask for
    tokenPrice,  \* SpecPrice: the (price, err) returned by GetTokenPrice
    rlock,       \* SpecChain: the number of readers holding Client.mu, each
                 \* inside c.client.CallContract
    semaphore,   \* SpecChain: the number of tokens in the semaphore channel of
                 \* the Multicall in flight
    errs         \* SpecChain: the errs slice of the Multicall in flight

mathVars   == <<p, amountOut>>
routerVars == <<tokenOut, slippageBps, snaps, intermediateTokens, hopSnaps,
                prices, ret>>
cacheVars  == <<cachePrices, cacheRet, written>>
priceVars  == <<token, quotes, tokenPrice>>
chainVars  == <<rlock, semaphore, errs>>
pipeVars   == <<chain, cache, now, task, results, wg, writer, firstDone,
                pricesErr, resp, served, hist, cacheVars, cancelled,
                priceVars, chainVars>>

vars == <<pc, amountIn, tokenIn, mathVars, routerVars, pipeVars>>

\* ------------------------------------------------------------------------
\* entities.Pair
\* ------------------------------------------------------------------------
Pair(t0, t1, r0, r1, dex, fee) ==
    [Token0 |-> t0, Token1 |-> t1, Reserve0 |-> r0, Reserve1 |-> r1,
     DEX |-> dex, Fee |-> fee]

\* big.Int.Sign
Sign(x) == IF x > 0 THEN 1 ELSE IF x < 0 THEN -1 ELSE 0

\* big.Int.Div: Euclidean division; every divisor in this program is positive
BigDiv(x, y) == x \div y

\* Pair.GetAmountOut with the fee multiplier computed with the wrong sign
GetAmountOutFeeAdded(pr, amtIn, tIn) ==
    IF amtIn = NilInt \/ Sign(amtIn) <= 0 THEN 0
    ELSE
      LET reserveIn  == IF tIn = pr.Token0 THEN pr.Reserve0 ELSE pr.Reserve1
          reserveOut == IF tIn = pr.Token0 THEN pr.Reserve1 ELSE pr.Reserve0
      IN IF reserveIn = NilInt \/ reserveOut = NilInt
            \/ Sign(reserveIn) = 0 \/ Sign(reserveOut) = 0
         THEN 0
         ELSE
           LET feeMultiplier   == 10000 + pr.Fee
               amountInWithFee == amtIn * feeMultiplier
               numerator       == amountInWithFee * reserveOut
               denominator     == reserveIn * 10000 + amountInWithFee
           IN BigDiv(numerator, denominator)

\* Pair.GetAmountOut that always reads (reserve0, reserve1) as (in, out)
GetAmountOutNoSwap(pr, amtIn, tIn) ==
    IF amtIn = NilInt \/ Sign(amtIn) <= 0 THEN 0
    ELSE
      LET reserveIn  == pr.Reserve0
          reserveOut == pr.Reserve1
      IN IF reserveIn = NilInt \/ reserveOut = NilInt
            \/ Sign(reserveIn) = 0 \/ Sign(reserveOut) = 0
         THEN 0
         ELSE
           LET feeMultiplier   == 10000 - pr.Fee
               amountInWithFee == amtIn * feeMultiplier
               numerator       == amountInWithFee * reserveOut
               denominator     == reserveIn * 10000 + amountInWithFee
           IN BigDiv(numerator, denominator)

\* Pair.GetAmountOut with amountInWithFee subtracted from the denominator
\* (Sub for Add); a non-positive denominator yields 0
GetAmountOutDenominatorSub(pr, amtIn, tIn) ==
    IF amtIn = NilInt \/ Sign(amtIn) <= 0 THEN 0
    ELSE
      LET reserveIn  == IF tIn = pr.Token0 THEN pr.Reserve0 ELSE pr.Reserve1
          reserveOut == IF tIn = pr.Token0 THEN pr.Reserve1 ELSE pr.Reserve0
      IN IF reserveIn = NilInt \/ reserveOut = NilInt
            \/ Sign(reserveIn) = 0 \/ Sign(reserveOut) = 0
         THEN 0
         ELSE
           LET feeMultiplier   == 10000 - pr.Fee
               amountInWithFee == amtIn * feeMultiplier
               numerator       == amountInWithFee * reserveOut
               denominator     == reserveIn * 10000 - amountInWithFee
           IN IF denominator <= 0 THEN 0 ELSE BigDiv(numerator, denominator)

\* Pair.GetAmountOut
GetAmountOut(pr, amtIn, tIn) ==
    IF amtIn = NilInt \/ Sign(amtIn) <= 0 THEN 0
    ELSE
      LET reserveIn  == IF tIn = pr.Token0 THEN pr.Reserve0 ELSE pr.Reserve1
          reserveOut == IF tIn = pr.Token0 THEN pr.Reserve1 ELSE pr.Reserve0
      IN IF reserveIn = NilInt \/ reserveOut = NilInt
            \/ Sign(reserveIn) = 0 \/ Sign(reserveOut) = 0
         THEN 0
         ELSE
           LET feeMultiplier   == 10000 - pr.Fee
               amountInWithFee == amtIn * feeMultiplier
               numerator       == amountInWithFee * reserveOut
               denominator     == reserveIn * 10000 + amountInWithFee
           IN BigDiv(numerator, denominator)

\* ------------------------------------------------------------------------
\* entities.Route
\* ------------------------------------------------------------------------
Hop(pr, tIn, tOut) == [Pair |-> pr, TokenIn |-> tIn, TokenOut |-> tOut]

Route(hops, amtIn, amtOut, gas) ==
    [Hops |-> hops, AmountIn |-> amtIn, AmountOut |-> amtOut, GasEstimate |-> gas]

\* a nil *Route
NilRoute == Route(<<>>, NilInt, NilInt, 0)

\* the loop of CalculateAmountOut / calculateSpotAmount over hops[k..]:
\* 0 as soon as a hop yields no output
RECURSIVE ThroughHops(_, _, _)
ThroughHops(hops, k, amt) ==
    IF k > Len(hops) THEN amt
    ELSE LET next == GetAmountOut(hops[k].Pair, amt, hops[k].TokenIn)
         IN IF Sign(next) <= 0 THEN 0 ELSE ThroughHops(hops, k + 1, next)

\* Route.CalculateAmountOut
CalculateAmountOut(r) ==
    IF Len(r.Hops) = 0 \/ r.AmountIn = NilInt THEN 0
    ELSE ThroughHops(r.Hops, 1, r.AmountIn)

\* Route.calculateSpotAmount
calculateSpotAmount(r) ==
    IF Len(r.Hops) = 0 \/ r.AmountIn = NilInt THEN 0
    ELSE LET testOutput == ThroughHops(r.Hops, 1, testAmount)
         IN BigDiv(r.AmountIn * testOutput, testAmount)

\* Route.CalculatePriceImpact without the early return on a non-positive diff
CalculatePriceImpactNoClamp(r) ==
    IF Len(r.Hops) = 0 \/ r.AmountIn = NilInt \/ Sign(r.AmountIn) = 0 THEN 0
    ELSE
      LET spotAmount == calculateSpotAmount(r)
      IN IF Sign(spotAmount) = 0 THEN 0
         ELSE
           LET actualAmount == CalculateAmountOut(r)
           IN IF Sign(actualAmount) = 0 THEN 10000
              ELSE BigDiv((spotAmount - actualAmount) * 10000, spotAmount)

\* Route.CalculatePriceImpact
CalculatePriceImpact(r) ==
    IF Len(r.Hops) = 0 \/ r.AmountIn = NilInt \/ Sign(r.AmountIn) = 0 THEN 0
    ELSE
      LET spotAmount == calculateSpotAmount(r)
      IN IF Sign(spotAmount) = 0 THEN 0
         ELSE
           LET actualAmount == CalculateAmountOut(r)
           IN IF Sign(actualAmount) = 0 THEN 10000
              ELSE
                LET diff == spotAmount - actualAmount
                IN IF Sign(diff) <= 0 THEN 0
                   ELSE BigDiv(diff * 10000, spotAmount)

\* ------------------------------------------------------------------------
\* services.PriceResult and the venue list
\* ------------------------------------------------------------------------
\* dexClients as wired by main: uniswapV2, uniswapV3, sushiswap
dexClients == <<"uniswap_v2", "uniswap_v3", "sushiswap">>

Venues == 1 .. Len(dexClients)

DEXTypes == {dexClients[i] : i \in Venues}

\* a nil *Pair
NilPair == Pair(0, 0, NilInt, NilInt, "", 0)

PriceResult(dex, amtOut, pr, failed) ==
    [DEX |-> dex, AmountOut |-> amtOut, Pair |-> pr, Error |-> failed]

\* the zero value of a results slot
ZeroResult == PriceResult("", NilInt, NilPair, FALSE)

\* the outcome of a GetPairByTokens call that returned an error
ErrPair == Pair(0, 0, NilInt, NilInt, "error", 0)

\* what one venue task of GetPrices stores in its slot: snap is the snapshot
\* it obtained (from the cache or from the adapter), or ErrPair when the
\* adapter's GetPairByTokens failed
TaskResult(dex, snap, amtIn, tIn) ==
    IF snap = ErrPair
    THEN PriceResult(dex, NilInt, NilPair, TRUE)
    ELSE PriceResult(dex, GetAmountOut(snap, amtIn, tIn), snap, FALSE)

\* ------------------------------------------------------------------------
\* services.RouterService helpers
\* ------------------------------------------------------------------------
\* sort.Slice(x, less) with less(i, j) = x[i].AmountOut > x[j].AmountOut on a
\* slice of at most 12 elements: insertion sort, each element moved left
\* while it is strictly greater than its left neighbour
RECURSIVE InsertDesc(_, _)
InsertDesc(sorted, x) ==
    IF Len(sorted) = 0 THEN <<x>>
    ELSE IF x.AmountOut > sorted[Len(sorted)].AmountOut
         THEN Append(InsertDesc(SubSeq(sorted, 1, Len(sorted) - 1), x),
                     sorted[Len(sorted)])
         ELSE Append(sorted, x)

RECURSIVE SortDesc(_)
SortDesc(xs) ==
    IF Len(xs) = 0 THEN <<>>
    ELSE InsertDesc(SortDesc(SubSeq(xs, 1, Len(xs) - 1)), xs[Len(xs)])

IsValidPrice(r) ==
    /\ ~r.Error
    /\ r.AmountOut # NilInt
    /\ Sign(r.AmountOut) > 0
    /\ r.Pair # NilPair

\* filterValidPrices that keeps the results whose AmountOut is zero
filterValidPricesKeepZero(ps) ==
    SortDesc(SelectSeq(ps, LAMBDA r : ~r.Error /\ r.AmountOut # NilInt
                                       /\ r.Pair # NilPair))

\* filterValidPrices
filterValidPrices(ps) == SortDesc(SelectSeq(ps, IsValidPrice))

\* estimateGas returning the default whatever the route
estimateGasDefault(route) == 150000

\* estimateGas
estimateGas(route) ==
    IF route = NilRoute \/ Len(route.Hops) = 0 THEN 150000
    ELSE LET baseGas   == 21000
             gasPerHop == 100000
         IN baseGas + Len(route.Hops) * gasPerHop

\* RouterService.buildRoute
buildRoute(tIn, tOut, amtIn, result) ==
    Route(<<Hop(result.Pair, tIn, tOut)>>, amtIn, result.AmountOut,
          estimateGas(NilRoute))

\* the sources map of a quote: venue kind -> AmountOut, NilInt when absent
\* (a later entry of the same kind overwrites an earlier one)
RECURSIVE SourcesOf(_, _)
SourcesOf(ps, k) ==
    IF k = 0 THEN [d \in DEXTypes |-> NilInt]
    ELSE [SourcesOf(ps, k - 1) EXCEPT ![ps[k].DEX] = ps[k].AmountOut]

\* ------------------------------------------------------------------------
\* entities.Quote and the split order
\* ------------------------------------------------------------------------
SplitRoute(route, pct, amtIn, amtOut) ==
    [Route |-> route, Percentage |-> pct, AmountIn |-> amtIn, AmountOut |-> amtOut]

Quote(tIn, tOut, amtIn, amtOut, best, splits, impact, gas, sources) ==
    [TokenIn |-> tIn, TokenOut |-> tOut, AmountIn |-> amtIn, AmountOut |-> amtOut,
     BestRoute |-> best, SplitRoutes |-> splits, PriceImpact |-> impact,
     GasEstimate |-> gas, Sources |-> sources,
     MinAmountOut |-> NilInt, SlippageBps |-> 0, PriceWarning |-> <<>>]

\* a nil *Quote
NilQuote ==
    Quote(0, 0, NilInt, NilInt, NilRoute, <<>>, NilInt, 0,
          [d \in DEXTypes |-> NilInt])

DefaultSlippageBps == 50

PriceImpactWarningThreshold == 100

splitRatios == << <<50, 50>>, <<60, 40>>, <<70, 30>>, <<80, 20>> >>

\* calculateSplitPriceImpact
RECURSIVE SplitWeights(_, _)
SplitWeights(splits, k) ==
    IF k = 0 THEN [totalWeight |-> 0, weightedImpact |-> 0]
    ELSE LET acc == SplitWeights(splits, k - 1)
         IN IF splits[k].Route # NilRoute
            THEN LET impact == CalculatePriceImpact(splits[k].Route)
                     weight == splits[k].Percentage
                 IN [totalWeight    |-> acc.totalWeight + weight,
                     weightedImpact |-> acc.weightedImpact + impact * weight]
            ELSE acc

calculateSplitPriceImpact(splits) ==
    IF Len(splits) = 0 THEN 0
    ELSE LET acc == SplitWeights(splits, Len(splits))
         IN IF Sign(acc.totalWeight) = 0 THEN 0
            ELSE BigDiv(acc.weightedImpact, acc.totalWeight)

\* the split of one ratio with the second amount taken as its own percentage
\* of amountIn instead of the remainder
SplitForBothFloored(tIn, tOut, amtIn, ps, ratio) ==
    LET amount1 == BigDiv(amtIn * ratio[1], 100)
        amount2 == BigDiv(amtIn * ratio[2], 100)
        output1 == GetAmountOut(ps[1].Pair, amount1, tIn)
        output2 == GetAmountOut(ps[2].Pair, amount2, tIn)
        route1  == Route(<<Hop(ps[1].Pair, tIn, tOut)>>, amount1, output1,
                         estimateGas(NilRoute))
        route2  == Route(<<Hop(ps[2].Pair, tIn, tOut)>>, amount2, output2,
                         estimateGas(NilRoute))
    IN [totalOutput |-> output1 + output2,
        totalGas    |-> estimateGas(NilRoute) * 2,
        splits      |-> << SplitRoute(route1, ratio[1], amount1, output1),
                           SplitRoute(route2, ratio[2], amount2, output2) >>]

\* one iteration of the ratio loop of trySplitOrder: the split built for
\* ratio, given the two best results
SplitFor(tIn, tOut, amtIn, ps, ratio) ==
    LET amount1 == BigDiv(amtIn * ratio[1], 100)
        amount2 == amtIn - amount1
        output1 == GetAmountOut(ps[1].Pair, amount1, tIn)
        output2 == GetAmountOut(ps[2].Pair, amount2, tIn)
        route1  == Route(<<Hop(ps[1].Pair, tIn, tOut)>>, amount1, output1,
                         estimateGas(NilRoute))
        route2  == Route(<<Hop(ps[2].Pair, tIn, tOut)>>, amount2, output2,
                         estimateGas(NilRoute))
    IN [totalOutput |-> output1 + output2,
        totalGas    |-> estimateGas(NilRoute) * 2,
        splits      |-> << SplitRoute(route1, ratio[1], amount1, output1),
                           SplitRoute(route2, ratio[2], amount2, output2) >>]

\* the ratio loop: the state (bestSplitOutput, bestSplits, bestGas) after the
\* first k ratios
RECURSIVE SplitLoop(_, _, _, _, _)
SplitLoop(tIn, tOut, amtIn, ps, k) ==
    IF k = 0
    THEN [bestSplitOutput |-> 0, bestSplits |-> <<>>, bestGas |-> 0]
    ELSE LET acc == SplitLoop(tIn, tOut, amtIn, ps, k - 1)
             it  == SplitFor(tIn, tOut, amtIn, ps, splitRatios[k])
         IN IF it.totalOutput > acc.bestSplitOutput
            THEN [bestSplitOutput |-> it.totalOutput,
                  bestSplits      |-> it.splits,
                  bestGas         |-> it.totalGas]
            ELSE acc

\* ------------------------------------------------------------------------
\* services.RouterService
\* ------------------------------------------------------------------------
\* trySplitOrder that also adopts a split whose total equals the single output
trySplitOrderOnEqual(tIn, tOut, amtIn, prices0) ==
    IF Len(prices0) < 2 THEN NilQuote
    ELSE
      LET ps           == SortDesc(prices0)
          singleOutput == ps[1].AmountOut
          singleGas    == estimateGas(NilRoute)
          loop         == SplitLoop(tIn, tOut, amtIn, ps, Len(splitRatios))
      IN IF loop.bestSplitOutput < singleOutput THEN NilQuote
         ELSE Quote(tIn, tOut, amtIn, loop.bestSplitOutput,
                    buildRoute(tIn, tOut, amtIn, ps[1]),
                    loop.bestSplits,
                    calculateSplitPriceImpact(loop.bestSplits),
                    loop.bestGas + singleGas,
                    SourcesOf(ps, Len(ps)))

\* RouterService.trySplitOrder
trySplitOrder(tIn, tOut, amtIn, prices0) ==
    IF Len(prices0) < 2 THEN NilQuote
    ELSE
      LET ps           == SortDesc(prices0)
          singleOutput == ps[1].AmountOut
          singleGas    == estimateGas(NilRoute)
          loop         == SplitLoop(tIn, tOut, amtIn, ps, Len(splitRatios))
      IN IF loop.bestSplitOutput <= singleOutput THEN NilQuote
         ELSE Quote(tIn, tOut, amtIn, loop.bestSplitOutput,
                    buildRoute(tIn, tOut, amtIn, ps[1]),
                    loop.bestSplits,
                    calculateSplitPriceImpact(loop.bestSplits),
                    loop.bestGas + singleGas,
                    SourcesOf(ps, Len(ps)))

\* applySlippageProtection that adds the tolerance instead of subtracting it
applySlippageProtectionAdded(q, slipBps) ==
    IF q.AmountOut = NilInt \/ Sign(q.AmountOut) <= 0 THEN q
    ELSE LET multiplier == 10000 + slipBps
             minAmount  == BigDiv(q.AmountOut * multiplier, 10000)
         IN [q EXCEPT !.MinAmountOut = minAmount, !.SlippageBps = slipBps]

\* RouterService.applySlippageProtection
applySlippageProtection(q, slipBps) ==
    IF q.AmountOut = NilInt \/ Sign(q.AmountOut) <= 0 THEN q
    ELSE LET multiplier == 10000 - slipBps
             minAmount  == BigDiv(q.AmountOut * multiplier, 10000)
         IN [q EXCEPT !.MinAmountOut = minAmount, !.SlippageBps = slipBps]

\* fmt.Sprintf("High price impact: %.2f%%", impact/100.0): the two parts of
\* the number printed
PriceWarningText(impact) == <<impact \div 100, impact % 100>>

\* a call's return value (quote, err)
Ret(q, e) == [quote |-> q, err |-> e]

\* the best valid result of the loop of GetQuote over prices[1..k]: 0 when
\* there is none, else its index (a later result replaces it only when
\* strictly greater)
RECURSIVE BestIndex(_, _)
BestIndex(ps, k) ==
    IF k = 0 THEN 0
    ELSE LET b == BestIndex(ps, k - 1)
         IN IF ps[k].Error \/ ps[k].AmountOut = NilInt \/ Sign(ps[k].AmountOut) <= 0
            THEN b
            ELSE IF b = 0 \/ ps[k].AmountOut > ps[b].AmountOut THEN k ELSE b

\* the sources map built by the loop of GetQuote
QuoteSources(ps) ==
    LET listed == SelectSeq(ps, LAMBDA r : ~r.Error /\ r.AmountOut # NilInt
                                           /\ Sign(r.AmountOut) > 0)
    IN SourcesOf(listed, Len(listed))

\* RouterService.GetQuote, given the results of GetPrices
GetQuote(prices0, tIn, tOut, amtIn) ==
    LET b == BestIndex(prices0, Len(prices0))
    IN IF b = 0 THEN Ret(NilQuote, "no valid routes found")
       ELSE LET route == buildRoute(tIn, tOut, amtIn, prices0[b])
            IN Ret(Quote(tIn, tOut, amtIn, prices0[b].AmountOut, route, <<>>,
                         CalculatePriceImpact(route), estimateGas(route),
                         QuoteSources(prices0)),
                   "")

\* RouterService.GetSmartQuote, given the results of GetPrices
GetSmartQuote(prices0, tIn, tOut, amtIn, slipBps0) ==
    LET slipBps     == IF slipBps0 = 0 THEN DefaultSlippageBps ELSE slipBps0
        validPrices == filterValidPrices(prices0)
    IN IF Len(validPrices) = 0 THEN Ret(NilQuote, "no valid routes found")
       ELSE
         LET splitQuote == IF Len(validPrices) >= 2
                           THEN trySplitOrder(tIn, tOut, amtIn, validPrices)
                           ELSE NilQuote
             route      == buildRoute(tIn, tOut, amtIn, validPrices[1])
             single     == Quote(tIn, tOut, amtIn, validPrices[1].AmountOut,
                                 route, <<>>, CalculatePriceImpact(route),
                                 estimateGas(route),
                                 SourcesOf(validPrices, Len(validPrices)))
             q1         == IF splitQuote # NilQuote THEN splitQuote ELSE single
             q2         == applySlippageProtection(q1, slipBps)
             q3         == IF q2.PriceImpact # NilInt
                              /\ q2.PriceImpact > PriceImpactWarningThreshold
                           THEN [q2 EXCEPT !.PriceWarning =
                                              PriceWarningText(q2.PriceImpact)]
                           ELSE q2
         IN Ret(q3, "")

\* the results GetPrices returns after wg.Wait when venue task i obtained
\* snapshot sn[i]
JoinedPrices(sn, amtIn, tIn) ==
    [i \in Venues |-> TaskResult(dexClients[i], sn[i], amtIn, tIn)]

\* the two-hop quote GetMultiHopQuote builds from hop1 and hop2
TwoHopQuote(tIn, tOut, amtIn, mid, hop1, hop2) ==
    LET route0 == Route(<<Hop(hop1.Pair, tIn, mid), Hop(hop2.Pair, mid, tOut)>>,
                        amtIn, hop2.AmountOut, estimateGas(NilRoute))
        route  == [route0 EXCEPT !.GasEstimate = estimateGas(route0)]
    IN Quote(tIn, tOut, amtIn, hop2.AmountOut, route, <<>>,
             CalculatePriceImpact(route), route.GasEstimate,
             [d \in DEXTypes |-> NilInt])

UsableHop(r) == ~(r.Error \/ r.AmountOut = NilInt \/ Sign(r.AmountOut) <= 0)

\* the loop over hop2Prices[1..k]
RECURSIVE Hop2Loop(_, _, _, _, _, _, _, _)
Hop2Loop(best, tIn, tOut, amtIn, mid, hop1, hop2Prices, k) ==
    IF k = 0 THEN best
    ELSE LET b    == Hop2Loop(best, tIn, tOut, amtIn, mid, hop1, hop2Prices, k - 1)
             hop2 == hop2Prices[k]
         IN IF ~UsableHop(hop2) THEN b
            ELSE IF b = NilQuote \/ hop2.AmountOut > b.AmountOut
                 THEN TwoHopQuote(tIn, tOut, amtIn, mid, hop1, hop2)
                 ELSE b

\* the loop over hop1Prices[1..j]; snaps2 are the snapshots the venue tasks
\* obtain for mid -> tokenOut
RECURSIVE Hop1Loop(_, _, _, _, _, _, _, _)
Hop1Loop(best, tIn, tOut, amtIn, mid, hop1Prices, snaps2, j) ==
    IF j = 0 THEN best
    ELSE LET b    == Hop1Loop(best, tIn, tOut, amtIn, mid, hop1Prices, snaps2, j - 1)
             hop1 == hop1Prices[j]
         IN IF ~UsableHop(hop1) THEN b
            ELSE Hop2Loop(b, tIn, tOut, amtIn, mid, hop1,
                          JoinedPrices(snaps2, hop1.AmountOut, mid),
                          Len(dexClients))

\* the loop over intermediateTokens[1..n]; snaps1[m] and snaps2[m] are the
\* snapshots obtained for tokenIn -> m and m -> tokenOut
RECURSIVE IntermediateLoop(_, _, _, _, _, _, _, _)
IntermediateLoop(best, tIn, tOut, amtIn, inter, snaps1, snaps2, n) ==
    IF n = 0 THEN best
    ELSE LET b   == IntermediateLoop(best, tIn, tOut, amtIn, inter, snaps1, snaps2, n - 1)
             mid == inter[n]
         IN IF mid = tIn \/ mid = tOut THEN b
            ELSE Hop1Loop(b, tIn, tOut, amtIn, mid,
                          JoinedPrices(snaps1[mid], amtIn, tIn),
                          snaps2[mid], Len(dexClients))

\* RouterService.GetMultiHopQuote that does not start from the direct quote
GetMultiHopQuoteNoDirect(prices0, tIn, tOut, amtIn, inter, snaps1, snaps2) ==
    LET bestQuote == IntermediateLoop(NilQuote, tIn, tOut, amtIn, inter,
                                      snaps1, snaps2, Len(inter))
    IN IF bestQuote = NilQuote
       THEN Ret(NilQuote, "no valid routes found (direct or multi-hop)")
       ELSE Ret(bestQuote, "")

\* RouterService.GetMultiHopQuote, given the results of the direct GetPrices
\* and the snapshots of the intermediate pairs
GetMultiHopQuote(prices0, tIn, tOut, amtIn, inter, snaps1, snaps2) ==
    LET direct    == GetQuote(prices0, tIn, tOut, amtIn)
        bestQuote == IntermediateLoop(IF direct.err = "" THEN direct.quote
                                      ELSE NilQuote,
                                      tIn, tOut, amtIn, inter, snaps1, snaps2,
                                      Len(inter))
    IN IF bestQuote = NilQuote
       THEN Ret(NilQuote, "no valid routes found (direct or multi-hop)")
       ELSE Ret(bestQuote, "")

\* ------------------------------------------------------------------------
\* cache.InMemoryCache and the cache key
\* ------------------------------------------------------------------------
\* Pair.GetAmountOut that computes the denominator in the input-side
\* reserve (reserveIn.Mul(reserveIn, 10000) for new(big.Int).Mul(...)): the
\* snapshot it leaves
PairAfterGetAmountOutInPlace(pr, amtIn, tIn) ==
    IF amtIn <= 0 \/ pr.Reserve0 = 0 \/ pr.Reserve1 = 0 THEN pr
    ELSE IF tIn = pr.Token0
         THEN [pr EXCEPT !.Reserve0 = @ * 10000]
         ELSE [pr EXCEPT !.Reserve1 = @ * 10000]

\* the snapshot Pair.GetAmountOut leaves: the receiver of every big.Int
\* operation is a value made in the call (new(big.Int), or the product
\* denominator), so the reserves it reads are what they were
PairAfterGetAmountOut(pr, amtIn, tIn) == pr

\* PairCacheKey: fmt.Sprintf("pair:%s:%s:%s", dex, token0, token1), the parts
\* of the string in the order they are printed
PairCacheKey(dex, token0, token1) == <<"pair", dex, token0, token1>>

\* cacheTTL of NewPriceService, in seconds
cacheTTL == 10

\* a cachedPair entry of InMemoryCache.pairs
CachedPair(pr, expires) == [pair |-> pr, expiresAt |-> expires]

\* InMemoryCache.GetPair that still serves an entry at the instant it expires
\* (!After for Before)
CacheGetPairNotAfter(c, key, t) ==
    IF key \in DOMAIN c /\ t <= c[key].expiresAt THEN c[key].pair ELSE NilPair

\* InMemoryCache.GetPair: the value returned (NilPair for a miss; the error
\* returned is always nil)
CacheGetPair(c, key, t) ==
    IF key \in DOMAIN c /\ t < c[key].expiresAt THEN c[key].pair ELSE NilPair

\* InMemoryCache.GetPair: the map it leaves (an expired entry is deleted)
CacheAfterGetPair(c, key, t) ==
    IF key \in DOMAIN c /\ ~(t < c[key].expiresAt)
    THEN [k \in DOMAIN c \ {key} |-> c[k]]
    ELSE c

\* InMemoryCache.SetPair: the map it leaves
CacheAfterSetPair(c, key, pr, t, ttl) ==
    [k \in DOMAIN c \cup {key} |->
        IF k = key THEN CachedPair(pr, t + ttl) ELSE c[k]]

\* PriceCacheKey: "price:%s"
PriceCacheKey(tok) == <<"price", tok>>

\* a cachedPrice entry of InMemoryCache.prices
CachedPrice(price, expires) == [price |-> price, expiresAt |-> expires]

\* InMemoryCache.GetPrice: the value returned ("" for a miss; the error
\* returned is always nil)
CacheGetPrice(c, key, t) ==
    IF key \in DOMAIN c /\ t < c[key].expiresAt THEN c[key].price ELSE ""

\* InMemoryCache.GetPrice: the map it leaves (an expired entry is deleted)
CacheAfterGetPrice(c, key, t) ==
    IF key \in DOMAIN c /\ ~(t < c[key].expiresAt)
    THEN [k \in DOMAIN c \ {key} |-> c[k]]
    ELSE c

\* InMemoryCache.SetPrice: the map it leaves
CacheAfterSetPrice(c, key, price, t, ttl) ==
    [k \in DOMAIN c \cup {key} |->
        IF k = key THEN CachedPrice(price, t + ttl) ELSE c[k]]

\* InMemoryCache.Delete: what it leaves of either map
CacheAfterDelete(c, key) == [k \in DOMAIN c \ {key} |-> c[k]]

\* ------------------------------------------------------------------------
\* handlers.QuoteHandler
\* ------------------------------------------------------------------------
\* a query parameter that is absent ("") and one that does not parse
NoParam  == -2000000
BadParam == -3000000

\* big.Int.String: the decimal digits, most significant first, after a -1
\* for a negative number
RECURSIVE Digits(_)
Digits(n) == IF n < 10 THEN <<n>> ELSE Append(Digits(n \div 10), n % 10)

BigString(n) == IF n < 0 THEN <<-1>> \o Digits(-n) ELSE Digits(n)

\* ------------------------------------------------------------------------
\* big.Int values beyond the machine word: m * 10^e with m not a multiple of
\* 10 (0 is m = 0, e = 0), so that equal numbers are equal records
\* ------------------------------------------------------------------------
RECURSIVE BigNorm(_, _)
BigNorm(m, e) ==
    IF m = 0 THEN [m |-> 0, e |-> 0]
    ELSE IF m % 10 = 0 THEN BigNorm(m \div 10, e + 1)
    ELSE [m |-> m, e |-> e]

\* a nil *big.Int
NilBig == [m |-> NilInt, e |-> 0]

\* new(big.Int).Exp(big.NewInt(10), big.NewInt(n), nil)
BigExp10(n) == [m |-> 1, e |-> n]

\* big.Int.Mul
BigMul(a, b) == BigNorm(a.m * b.m, a.e + b.e)

RECURSIVE Pow10(_)
Pow10(n) == IF n = 0 THEN 1 ELSE 10 * Pow10(n - 1)

\* big.Int.Div by 10^n for a >= 0: the floor of the quotient (a mantissa
\* has at most 10 digits, so the quotient by 10^10 or more is 0)
BigDivExp10(a, n) ==
    IF a.e >= n THEN BigNorm(a.m, a.e - n)
    ELSE IF n - a.e > 9 THEN BigNorm(0, 0)
    ELSE BigNorm(a.m \div Pow10(n - a.e), 0)

\* big.Int.String of a >= 0: the decimal digits, most significant first
BigDigits(a) ==
    IF a.m = 0 THEN <<0>> ELSE Digits(a.m) \o [i \in 1 .. a.e |-> 0]

\* big.Int.Cmp for a, b >= 0
BigCmp(a, b) ==
    LET da == BigDigits(a)
        db == BigDigits(b)
    IN IF Len(da) < Len(db) THEN -1
       ELSE IF Len(da) > Len(db) THEN 1
       ELSE IF da = db THEN 0
       ELSE LET i == CHOOSE i \in 1 .. Len(da) :
                        da[i] # db[i] /\ \A j \in 1 .. (i - 1) : da[j] = db[j]
            IN IF da[i] < db[i] THEN -1 ELSE 1

\* ------------------------------------------------------------------------
\* services.PriceService: GetBestPrice and GetTokenPrice
\* ------------------------------------------------------------------------
\* the registered tokens GetTokenPrice distinguishes, and a 6-decimal token
USDC == 11
WETH == 12
USDT == 13

\* Token.Decimals
Decimals(tok) == IF tok = WETH THEN 18 ELSE 6

\* the loop of GetBestPrice over the results of GetPrices: the index of the
\* best result so far, 0 for none
RECURSIVE BestPriceLoop(_, _, _)
BestPriceLoop(pr, i, best) ==
    IF i > Len(pr) THEN best
    ELSE IF pr[i].Error THEN BestPriceLoop(pr, i + 1, best)
    ELSE IF pr[i].AmountOut = NilBig THEN BestPriceLoop(pr, i + 1, best)
    ELSE IF best = 0 \/ BigCmp(pr[i].AmountOut, pr[best].AmountOut) > 0
         THEN BestPriceLoop(pr, i + 1, i)
         ELSE BestPriceLoop(pr, i + 1, best)

\* PriceService.GetBestPrice returning the first usable result
GetBestPriceFirst(pr) ==
    IF \E k \in DOMAIN pr : ~pr[k].Error /\ pr[k].AmountOut # NilBig
    THEN [best |-> pr[CHOOSE k \in DOMAIN pr :
                        /\ ~pr[k].Error /\ pr[k].AmountOut # NilBig
                        /\ \A j \in 1 .. (k - 1) :
                              pr[j].Error \/ pr[j].AmountOut = NilBig],
          err |-> ""]
    ELSE [best |-> PriceResult("", NilBig, NilPair, FALSE),
          err |-> "no valid prices found"]

\* PriceService.GetBestPrice on the results pr of its GetPrices call
GetBestPrice(pr) ==
    LET best == BestPriceLoop(pr, 1, 0)
    IN IF best = 0
       THEN [best |-> PriceResult("", NilBig, NilPair, FALSE),
             err |-> "no valid prices found"]
       ELSE [best |-> pr[best], err |-> ""]

\* the (price, err) GetTokenPrice returns
TokenPriceRet(price, err) == [price |-> price, err |-> err]

\* the depth of calls of GetTokenPrice the model follows
MaxPriceDepth == 3

\* GetTokenPrice that calls itself for the token it was called for
RecursionTokenSelf(tok) == tok

\* the token of the call GetTokenPrice makes of itself:
\* s.GetTokenPrice(ctx, entities.WETH)
RecursionToken(tok) == WETH

\* a return of GetTokenPrice with the tokens of the calls made for it, the
\* call itself first
TracedRet(r, calls) == [ret |-> r, calls |-> calls]

\* PriceService.GetTokenPrice as call number depth of a request; q gives the
\* results of GetPrices for each <<tokenIn, tokenOut, amountIn>> (a pair the
\* request has no quotes for is answered with an error by every venue)
RECURSIVE GetTokenPriceTraced(_, _, _)
GetTokenPriceTraced(tok, q, depth) ==
    IF tok = USDC THEN TracedRet(TokenPriceRet(BigExp10(18), ""), <<tok>>)
    ELSE
      LET oneToken == BigExp10(Decimals(tok))
          Quoted(k) == IF k \in DOMAIN q THEN q[k]
                       ELSE [i \in Venues |->
                               PriceResult(dexClients[i], NilBig, NilPair, TRUE)]
          direct   == GetBestPrice(Quoted(<<tok, USDC, oneToken>>))
      IN IF direct.err = "" /\ direct.best.AmountOut # NilBig
            /\ Sign(direct.best.AmountOut.m) > 0
         THEN TracedRet(TokenPriceRet(BigMul(direct.best.AmountOut,
                                             BigExp10(12)), ""), <<tok>>)
         ELSE IF tok # WETH
         THEN LET wethResult == GetBestPrice(Quoted(<<tok, WETH, oneToken>>))
              IN IF wethResult.err # ""
                 THEN TracedRet(TokenPriceRet(NilBig, "failed to get price"),
                                <<tok>>)
                 ELSE LET Out(weth) ==
                            TracedRet(
                              IF weth.ret.err # ""
                              THEN TokenPriceRet(NilBig,
                                                 "failed to get WETH price")
                              ELSE TokenPriceRet(
                                     BigDivExp10(
                                       BigMul(wethResult.best.AmountOut,
                                              weth.ret.price), 18), ""),
                              <<tok>> \o weth.calls)
                      IN IF depth < MaxPriceDepth
                         THEN Out(GetTokenPriceTraced(RecursionToken(tok), q,
                                                      depth + 1))
                         ELSE Out(TracedRet(
                                    TokenPriceRet(NilBig, "not followed"),
                                    <<RecursionToken(tok)>>))
         ELSE TracedRet(TokenPriceRet(NilBig,
                                      "unable to determine price for token"),
                        <<tok>>)

\* PriceService.GetTokenPrice: what the caller of the first call gets
GetTokenPrice(tok, q) == GetTokenPriceTraced(tok, q, 1).ret

\* the validation of QuoteHandler.GetQuote: the error code of the 400
\* response, "" when the query is accepted
ValidateQuery(qIn, qOut, qAmount, qSlippage) ==
    IF qIn = NoParam \/ qOut = NoParam \/ qAmount = NoParam
    THEN "missing_params"
    ELSE IF qIn = BadParam THEN "invalid_token_in"
    ELSE IF qOut = BadParam THEN "invalid_token_out"
    ELSE IF qAmount = BadParam \/ Sign(qAmount) <= 0 THEN "invalid_amount"
    ELSE IF qSlippage # NoParam
            /\ (qSlippage = BadParam \/ Sign(qSlippage) < 0 \/ qSlippage > 10000)
         THEN "invalid_slippage"
    ELSE ""

\* the slippageBps the handler passes on: 0 when the parameter is absent
ParsedSlippage(qSlippage) == IF qSlippage = NoParam THEN 0 ELSE qSlippage

\* the RouteHop entries of buildQuoteResponse
RouteHops(route) ==
    IF route = NilRoute THEN <<>>
    ELSE [k \in 1 .. Len(route.Hops) |->
             [DEX      |-> route.Hops[k].Pair.DEX,
              TokenIn  |-> route.Hops[k].TokenIn,
              TokenOut |-> route.Hops[k].TokenOut,
              Fee      |-> route.Hops[k].Pair.Fee]]

\* the SplitRouteResp entries of buildQuoteResponse
SplitRouteResps(splits) ==
    [k \in 1 .. Len(splits) |->
        [DEX        |-> IF splits[k].Route # NilRoute
                           /\ Len(splits[k].Route.Hops) > 0
                        THEN splits[k].Route.Hops[1].Pair.DEX
                        ELSE "",
         Percentage |-> splits[k].Percentage,
         AmountIn   |-> BigString(splits[k].AmountIn),
         AmountOut  |-> BigString(splits[k].AmountOut)]]

\* QuoteHandler.buildQuoteResponse
buildQuoteResponse(q) ==
    [TokenIn      |-> q.TokenIn,
     TokenOut     |-> q.TokenOut,
     AmountIn     |-> BigString(q.AmountIn),
     AmountOut    |-> BigString(q.AmountOut),
     MinAmountOut |-> IF q.MinAmountOut # NilInt
                      THEN BigString(q.MinAmountOut) ELSE <<>>,
     SlippageBps  |-> q.SlippageBps,
     Route        |-> RouteHops(q.BestRoute),
     SplitRoutes  |-> SplitRouteResps(q.SplitRoutes),
     PriceImpact  |-> IF q.PriceImpact # NilInt
                      THEN BigString(q.PriceImpact) ELSE <<0>>,
     PriceWarning |-> q.PriceWarning,
     GasEstimate  |-> q.GasEstimate,
     Sources      |-> [d \in DEXTypes |->
                          IF q.Sources[d] = NilInt THEN <<>>
                          ELSE BigString(q.Sources[d])]]

\* an HTTP response: writeJSON(status, body) or writeError(status, error)
Response(status, code, body) == [status |-> status, error |-> code, body |-> body]

\* no response written yet
NoResponse == Response(0, "", <<>>)

\* no cache call made yet
NoCacheRet ==
    [op |-> "", key |-> <<>>, pair |-> NilPair, price |-> "", err |-> "",
     at |-> 0]


\* no request answered yet
NoHistory ==
    [answered |-> FALSE, tokenIn |-> 0, tokenOut |-> 0, amountIn |-> NilInt,
     slippageBps |-> 0, ret |-> Ret(NilQuote, ""), resp |-> NoResponse,
     servedAt |-> 0]

\* the request pipeline at rest: nothing cached, no request in flight
PipeIdle ==
    /\ chain = <<>>
    /\ cache = <<>>
    /\ now = 0
    /\ task = [i \in Venues |-> "idle"]
    /\ results = <<>>
    /\ wg = 0
    /\ writer = [i \in Venues |-> 0]
    /\ firstDone = 0
    /\ pricesErr = ""
    /\ resp = NoResponse
    /\ served = 0
    /\ hist = NoHistory
    /\ cachePrices = <<>>
    /\ cacheRet = NoCacheRet
    /\ written = [pairs |-> <<>>, prices |-> <<>>]
    /\ cancelled = FALSE
    /\ token = 0
    /\ quotes = <<>>
    /\ tokenPrice = TokenPriceRet(NilBig, "")
    /\ rlock = 0
    /\ semaphore = 0
    /\ errs = <<>>

\* ------------------------------------------------------------------------
\* SpecMath: Pair.GetAmountOut applied to every pair and input of the bounds
\* ------------------------------------------------------------------------
MathReserves == {NilInt} \cup (0 .. MaxReserve)
MathAmounts  == {NilInt} \cup (-1 .. MaxMathAmount)

InitMath ==
    /\ pc = "math_call"
    /\ \E r0 \in MathReserves, r1 \in MathReserves, fee \in FeeSet :
         p = Pair(TokenA, TokenB, r0, r1, "uniswap_v2", fee)
    /\ amountIn \in MathAmounts
    /\ tokenIn \in {TokenA, TokenB, TokenC}
    /\ amountOut = NilInt
    /\ tokenOut = TokenB
    /\ slippageBps = 0
    /\ snaps = <<>>
    /\ intermediateTokens = <<>>
    /\ hopSnaps = <<>>
    /\ prices = <<>>
    /\ ret = Ret(NilQuote, "")
    /\ PipeIdle

CallGetAmountOut ==
    /\ pc = "math_call"
    /\ amountOut' = GetAmountOut(p, amountIn, tokenIn)
    /\ pc' = "math_done"
    /\ UNCHANGED <<p, amountIn, tokenIn, routerVars, pipeVars>>

NextMath == CallGetAmountOut

SpecMath == InitMath /\ [][NextMath]_vars

\* ------------------------------------------------------------------------
\* SpecRouter: the router operations applied to every result vector of the
\* bounds.  GetPrices is taken at its join: venue task i has stored the
\* result of the snapshot it obtained.
\* ------------------------------------------------------------------------
RouterReserves == {0, 100, 200}
RouterAmounts  == {1, 20, 47}
RouterSlippage == {0, 100, 10000}

\* the adapters order two addresses by Address.Hex().  The token addresses
\* of the other specifications are numbers that stand for addresses whose
\* renderings are ordered as their values (as those of the registry's WETH,
\* USDC, USDT and DAI are); SpecSort takes the rendering in full.
HexLess(a, b) == a < b

\* the snapshots an adapter of kind dex can return for tokens a, b: an error,
\* or a pair over the sorted tokens.  The V2 family carries fee 30; the V3
\* adapter records reserves (0, 0) with its fee tier, the V3 mock of the
\* tests carries reserves and fee 5.
VenueSnapshots(dex, a, b) ==
    LET t0 == IF HexLess(a, b) THEN a ELSE b
        t1 == IF HexLess(a, b) THEN b ELSE a
    IN {ErrPair} \cup
       (IF dex = "uniswap_v3"
        THEN {Pair(t0, t1, 0, 0, dex, 3000)} \cup
             {Pair(t0, t1, r, r, dex, 5) : r \in RouterReserves \ {0}}
        ELSE {Pair(t0, t1, r0, r1, dex, 30) : r0 \in RouterReserves,
                                              r1 \in RouterReserves})

\* the snapshots drawn for the hops of GetMultiHopQuote; the second hop is
\* quoted by both V2 venues or by none
HopSnapshots(dex, a, b) ==
    LET t0 == IF HexLess(a, b) THEN a ELSE b
        t1 == IF HexLess(a, b) THEN b ELSE a
    IN IF dex = "uniswap_v3" THEN {ErrPair}
       ELSE IF dex = "uniswap_v2"
            THEN {ErrPair, Pair(t0, t1, 200, 200, dex, 30)}
            ELSE {ErrPair, Pair(t0, t1, 100, 200, dex, 30)}

\* one snapshot per venue of dexClients
VenueSnapshotVectors(a, b) ==
    {<<x1, x2, x3>> : x1 \in VenueSnapshots(dexClients[1], a, b),
                      x2 \in VenueSnapshots(dexClients[2], a, b),
                      x3 \in VenueSnapshots(dexClients[3], a, b)}

HopSnapshotVectors(a, b) ==
    {<<x1, x2, x3>> : x1 \in HopSnapshots(dexClients[1], a, b),
                      x2 \in HopSnapshots(dexClients[2], a, b),
                      x3 \in HopSnapshots(dexClients[3], a, b)}

InitRouter ==
    /\ pc = "router_call"
    /\ p = NilPair
    /\ amountOut = NilInt
    /\ tokenIn \in {TokenA, TokenB}
    /\ tokenOut = IF tokenIn = TokenA THEN TokenB ELSE TokenA
    /\ amountIn \in RouterAmounts
    /\ slippageBps = 0
    /\ snaps \in VenueSnapshotVectors(TokenA, TokenB)
    /\ intermediateTokens = <<>>
    /\ hopSnaps = <<>>
    /\ prices = <<>>
    /\ ret = Ret(NilQuote, "")
    /\ PipeIdle

CallGetQuote ==
    /\ pc = "router_call"
    /\ prices' = JoinedPrices(snaps, amountIn, tokenIn)
    /\ ret' = GetQuote(prices', tokenIn, tokenOut, amountIn)
    /\ pc' = "quote_done"
    /\ UNCHANGED <<amountIn, tokenIn, mathVars, tokenOut, slippageBps, snaps,
                   intermediateTokens, hopSnaps, pipeVars>>

CallGetSmartQuote ==
    /\ pc = "router_call"
    /\ \E slip \in RouterSlippage :
         /\ slippageBps' = slip
         /\ prices' = JoinedPrices(snaps, amountIn, tokenIn)
         /\ ret' = GetSmartQuote(prices', tokenIn, tokenOut, amountIn, slip)
    /\ pc' = "smart_done"
    /\ UNCHANGED <<amountIn, tokenIn, mathVars, tokenOut, snaps,
                   intermediateTokens, hopSnaps, pipeVars>>

CallGetMultiHopQuote ==
    /\ pc = "router_call"
    /\ \E inter \in {<<TokenC>>, <<tokenIn, TokenC, tokenOut>>} :
       \E s1 \in HopSnapshotVectors(tokenIn, TokenC),
          s2 \in {v \in HopSnapshotVectors(TokenC, tokenOut) :
                    (v[1] = ErrPair) <=> (v[3] = ErrPair)} :
         /\ intermediateTokens' = inter
         /\ hopSnaps' = <<s1, s2>>
         /\ prices' = JoinedPrices(snaps, amountIn, tokenIn)
         /\ ret' = GetMultiHopQuote(prices', tokenIn, tokenOut, amountIn, inter,
                                    [m \in {tokenIn, tokenOut, TokenC} |-> s1],
                                    [m \in {tokenIn, tokenOut, TokenC} |-> s2])
    /\ pc' = "multihop_done"
    /\ UNCHANGED <<amountIn, tokenIn, mathVars, tokenOut, slippageBps, snaps,
                   pipeVars>>

NextRouter == CallGetQuote \/ CallGetSmartQuote \/ CallGetMultiHopQuote

SpecRouter == InitRouter /\ [][NextRouter]_vars

\* ------------------------------------------------------------------------
\* SpecImpact: GetSmartQuote over the result vectors of SpecRouter, and over a
\* single venue at the full width of big.Int, where the probe of
\* calculateSpotAmount is the 10^15 of the source.
\*
\* A natural number at full width is the sequence of its decimal digits, most
\* significant first, without leading zeros (0 is <<0>>).  The digit loops
\* split their range in halves; the half the carry comes from is evaluated
\* first.
\* ------------------------------------------------------------------------
\* a digit sequence without its leading zeros
Strip(s) ==
    IF \A i \in 1 .. Len(s) : s[i] = 0 THEN <<0>>
    ELSE LET first == CHOOSE k \in 1 .. Len(s) :
                         s[k] # 0 /\ \A j \in 1 .. (k - 1) : s[j] = 0
         IN SubSeq(s, first, Len(s))

\* 10^n
WideExp10(n) == <<1>> \o [i \in 1 .. n |-> 0]

\* the value of a number that fits the machine word
RECURSIVE WideToInt(_)
WideToInt(a) ==
    IF Len(a) = 1 THEN a[1]
    ELSE 10 * WideToInt(SubSeq(a, 1, Len(a) - 1)) + a[Len(a)]

\* big.Int.Cmp
WideCmp(a, b) ==
    IF Len(a) < Len(b) THEN -1
    ELSE IF Len(a) > Len(b) THEN 1
    ELSE IF a = b THEN 0
    ELSE LET first == CHOOSE i \in 1 .. Len(a) :
                         a[i] # b[i] /\ \A j \in 1 .. (i - 1) : a[j] = b[j]
         IN IF a[first] < b[first] THEN -1 ELSE 1

\* the digit loop of Add, Sub and Mul by a word: the digits lo..hi of
\* a * k + b * s with the carry coming in, and the carry going out (a borrow
\* is the carry -1); a and b have the same length
RECURSIVE WideLin(_, _, _, _, _, _, _)
WideLin(a, k, b, s, lo, hi, carry) ==
    IF lo = hi
    THEN LET t == a[lo] * k + b[lo] * s + carry
         IN [d |-> <<t % 10>>, c |-> t \div 10]
    ELSE LET mid == (lo + hi) \div 2
             Join(low, high) == [d |-> high.d \o low.d, c |-> high.c]
             Upper(low) == IF low.c >= -1
                           THEN Join(low, WideLin(a, k, b, s, lo, mid, low.c))
                           ELSE low
         IN Upper(WideLin(a, k, b, s, mid + 1, hi, carry))

\* big.Int.Add
WideAdd(a, b) ==
    LET n  == IF Len(a) > Len(b) THEN Len(a) ELSE Len(b)
        pa == [i \in 1 .. (n - Len(a)) |-> 0] \o a
        pb == [i \in 1 .. (n - Len(b)) |-> 0] \o b
        Sum(r) == Strip(<<r.c>> \o r.d)
    IN Sum(WideLin(pa, 1, pb, 1, 1, n, 0))

\* big.Int.Sub for a >= b
WideSub(a, b) ==
    LET pb == [i \in 1 .. (Len(a) - Len(b)) |-> 0] \o b
    IN Strip(WideLin(a, 1, pb, -1, 1, Len(a), 0).d)

\* big.Int.Mul by a number k of the machine word, 0 <= k <= 100000
WideMulSmall(a, k) ==
    LET Product(r) == Strip(Digits(r.c) \o r.d)
    IN Product(WideLin(a, k, [i \in 1 .. Len(a) |-> 0], 1, 1, Len(a), 0))

\* big.Int.Mul: a times the high half of b, shifted, plus a times the low
\* half; a run of zeros in b contributes nothing
RECURSIVE WideMul(_, _)
WideMul(a, b) ==
    IF \A i \in 1 .. Len(b) : b[i] = 0 THEN <<0>>
    ELSE IF Len(b) = 1 THEN WideMulSmall(a, b[1])
    ELSE LET mid == Len(b) \div 2
         IN WideAdd(Strip(WideMul(a, SubSeq(b, 1, mid))
                            \o [i \in 1 .. (Len(b) - mid) |-> 0]),
                    WideMul(a, SubSeq(b, mid + 1, Len(b))))

\* long division of the digits a by b > 0, of which mult holds the multiples
\* b * 1 .. b * 9, r the remainder carried in: the quotient digits and the
\* remainder carried out
RECURSIVE WideDivMod(_, _, _)
WideDivMod(a, mult, r) ==
    IF Len(a) = 1
    THEN LET Step(cur, q) ==
                 [q |-> <<q>>,
                  r |-> IF q = 0 THEN cur ELSE WideSub(cur, mult[q])]
             Digit(cur) ==
                 Step(cur, Cardinality({k \in 1 .. 9 : WideCmp(mult[k], cur) <= 0}))
         IN Digit(Strip(Append(r, a[1])))
    ELSE LET mid == Len(a) \div 2
             Join(left, right) == [q |-> left.q \o right.q, r |-> right.r]
             Lower(left) ==
                 IF Len(left.r) > 0
                 THEN Join(left, WideDivMod(SubSeq(a, mid + 1, Len(a)), mult, left.r))
                 ELSE left
         IN Lower(WideDivMod(SubSeq(a, 1, mid), mult, r))

\* big.Int.Div for a >= 0, b > 0: the floor of the quotient
WideDiv(a, b) ==
    Strip(WideDivMod(a, <<>> \o [k \in 1 .. 9 |-> WideMulSmall(b, k)], <<0>>).q)

\* Pair.GetAmountOut at full width, for a non-nil amount and non-nil reserves
GetAmountOutWide(pr, amtIn, tIn) ==
    IF amtIn = <<0>> THEN <<0>>
    ELSE
      LET reserveIn  == IF tIn = pr.Token0 THEN pr.Reserve0 ELSE pr.Reserve1
          reserveOut == IF tIn = pr.Token0 THEN pr.Reserve1 ELSE pr.Reserve0
          feeMultiplier == 10000 - pr.Fee
          \* numerator over denominator
          Out(amountInWithFee) ==
              WideDiv(WideMul(amountInWithFee, reserveOut),
                      WideAdd(WideMulSmall(reserveIn, 10000), amountInWithFee))
      IN IF reserveIn = <<0>> \/ reserveOut = <<0>>
         THEN <<0>>
         ELSE Out(WideMulSmall(amtIn, feeMultiplier))

\* Route.calculateSpotAmount at full width that takes the output of the
\* trade itself for the spot amount
calculateSpotAmountWideNoProbe(r) ==
    GetAmountOutWide(r.Hops[1].Pair, r.AmountIn, r.Hops[1].TokenIn)

\* Route.calculateSpotAmount at full width, for a route of one hop: the
\* output of the probe of 10^15, scaled to the amount of the route
calculateSpotAmountWide(r) ==
    WideDiv(WideMul(r.AmountIn,
                    GetAmountOutWide(r.Hops[1].Pair, WideExp10(15),
                                     r.Hops[1].TokenIn)),
            WideExp10(15))

\* Route.CalculatePriceImpact at full width, for a route of one hop: the
\* basis points, which fit the machine word
CalculatePriceImpactWide(r) ==
    LET Impact(spotAmount, actualAmount) ==
            IF spotAmount = <<0>> THEN 0
            ELSE IF actualAmount = <<0>> THEN 10000
            ELSE IF WideCmp(spotAmount, actualAmount) <= 0 THEN 0
            ELSE WideToInt(WideDiv(
                   WideMulSmall(WideSub(spotAmount, actualAmount), 10000),
                   spotAmount))
    IN IF r.AmountIn = <<0>> THEN 0
       ELSE Impact(calculateSpotAmountWide(r),
                   GetAmountOutWide(r.Hops[1].Pair, r.AmountIn,
                                    r.Hops[1].TokenIn))

\* RouterService.GetSmartQuote at full width when GetPrices returns the
\* result of one venue, whose task obtained the snapshot pr: the single
\* quote, then its slippage protection, then its price warning
GetSmartQuoteWide(pr, tIn, tOut, amtIn, slipBps0) ==
    LET slipBps == IF slipBps0 = 0 THEN DefaultSlippageBps ELSE slipBps0
        Warned(q2) == IF q2.PriceImpact > PriceImpactWarningThreshold
                      THEN [q2 EXCEPT !.PriceWarning =
                                         PriceWarningText(q2.PriceImpact)]
                      ELSE q2
        Protected(single, out) ==
            Warned([single EXCEPT
                      !.MinAmountOut = WideDiv(WideMulSmall(out, 10000 - slipBps),
                                               Digits(10000)),
                      !.SlippageBps = slipBps])
        Single(route, out) ==
            Protected(Quote(tIn, tOut, amtIn, out, route, <<>>,
                            CalculatePriceImpactWide(route), estimateGas(route),
                            [d \in DEXTypes |->
                               IF d = pr.DEX THEN out ELSE NilInt]),
                      out)
        Answer(out) ==
            IF out = <<0>> THEN Ret(NilQuote, "no valid routes found")
            ELSE Ret(Single(Route(<<Hop(pr, tIn, tOut)>>, amtIn, out,
                                  estimateGas(NilRoute)), out), "")
    IN Answer(GetAmountOutWide(pr, amtIn, tIn))

\* reserves from 10 probes to 10^9 probes
WideReserves ==
    {WideExp10(16), WideExp10(18), WideMulSmall(WideExp10(18), 12345),
     WideExp10(21), WideExp10(24)}

\* one venue of fee 30 and a request for a tenth or a hundredth of its
\* input-side reserve
InitWide ==
    /\ pc = "wide_call"
    /\ \E r0 \in WideReserves, r1 \in WideReserves :
         p = Pair(TokenA, TokenB, r0, r1, "uniswap_v2", 30)
    /\ amountOut = NilInt
    /\ tokenIn \in {TokenA, TokenB}
    /\ tokenOut = IF tokenIn = TokenA THEN TokenB ELSE TokenA
    /\ \E share \in {10, 100} :
         amountIn = WideDiv(IF tokenIn = TokenA THEN p.Reserve0 ELSE p.Reserve1,
                            Digits(share))
    /\ slippageBps = 0
    /\ snaps = <<>>
    /\ intermediateTokens = <<>>
    /\ hopSnaps = <<>>
    /\ prices = <<>>
    /\ ret = Ret(NilQuote, "")
    /\ PipeIdle

CallGetSmartQuoteWide ==
    /\ pc = "wide_call"
    /\ ret' = GetSmartQuoteWide(p, tokenIn, tokenOut, amountIn, slippageBps)
    /\ pc' = "wide_done"
    /\ UNCHANGED <<amountIn, tokenIn, mathVars, tokenOut, slippageBps, snaps,
                   intermediateTokens, hopSnaps, prices, pipeVars>>

NextImpact == CallGetSmartQuote \/ CallGetSmartQuoteWide

SpecImpact == (InitRouter \/ InitWide) /\ [][NextImpact]_vars

\* ------------------------------------------------------------------------
\* Spec: the quote endpoint.  Requests are answered one after another by
\* QuoteHandler.GetQuote -> RouterService.GetSmartQuote ->
\* PriceService.GetPrices, whose venue tasks run concurrently and share the
\* in-process cache.
\* ------------------------------------------------------------------------
MaxRequests == 2
MaxTime     == 10
TickSeconds == 10

\* what the adapter of kind dex can answer for the pair TokenA/TokenB: an
\* error, or a snapshot over the sorted tokens.  The V3 adapter records
\* reserves (0, 0) and its fee tier.
PipeSnapshots(dex) ==
    {ErrPair} \cup
    (IF dex = "uniswap_v3"
     THEN {Pair(TokenA, TokenB, 0, 0, dex, 3000)}
     ELSE IF dex = "uniswap_v2"
          THEN {Pair(TokenA, TokenB, 100, 200, dex, 30),
                Pair(TokenA, TokenB, 200, 200, dex, 30)}
          ELSE {Pair(TokenA, TokenB, 200, 200, dex, 30)})

ChainVectors ==
    {<<x1, x2, x3>> : x1 \in PipeSnapshots(dexClients[1]),
                      x2 \in PipeSnapshots(dexClients[2]),
                      x3 \in PipeSnapshots(dexClients[3])}

\* the queries a request can carry, as <<tokenIn, tokenOut, amountIn,
\* slippage>>: the accepted ones (two different tokens, a positive amount,
\* slippage absent or 0) and one or two for each rejection of the handler
QueryAmounts == {1, 47}

AcceptedQueries ==
    {<<a, b, x, s>> : a \in {TokenA, TokenB}, b \in {TokenA, TokenB},
                      x \in QueryAmounts, s \in {NoParam, 0}}
      \ {<<a, a, x, s>> : a \in {TokenA, TokenB},
                          x \in QueryAmounts, s \in {NoParam, 0}}

RejectedQueries ==
    { <<NoParam, TokenB, 47, NoParam>>, <<TokenA, NoParam, 47, NoParam>>,
      <<TokenA, TokenB, NoParam, 0>>,
      <<BadParam, TokenB, 47, NoParam>>, <<TokenA, BadParam, 47, NoParam>>,
      <<TokenA, TokenB, BadParam, NoParam>>, <<TokenA, TokenB, 0, NoParam>>,
      <<TokenB, TokenA, -1, 0>>,
      <<TokenA, TokenB, 47, BadParam>>, <<TokenA, TokenB, 47, -1>>,
      <<TokenB, TokenA, 1, 10001>> }

Queries == AcceptedQueries \cup RejectedQueries

\* c.GetPairByTokens of adapter i for TokenA/TokenB in either order: the
\* adapter sorts the two tokens before it asks the chain
AdapterAnswer(i, a, b) ==
    LET t0 == IF HexLess(a, b) THEN a ELSE b
        t1 == IF HexLess(a, b) THEN b ELSE a
    IN IF chain[i] # ErrPair /\ chain[i].Token0 = t0 /\ chain[i].Token1 = t1
       THEN chain[i]
       ELSE ErrPair

\* c.GetPairByTokens(ctx, tokenIn, tokenOut) of adapter i: every chain call
\* carries ctx, and a call on a context that is done returns its error
GetPairByTokens(i, a, b) ==
    IF cancelled THEN ErrPair ELSE AdapterAnswer(i, a, b)

Init ==
    /\ pc = "idle"
    /\ p = NilPair
    /\ amountOut = NilInt
    /\ tokenIn = 0
    /\ tokenOut = 0
    /\ amountIn = NilInt
    /\ slippageBps = 0
    /\ snaps = [i \in Venues |-> NilPair]
    /\ intermediateTokens = <<>>
    /\ hopSnaps = <<>>
    /\ prices = <<>>
    /\ ret = Ret(NilQuote, "")
    /\ chain \in ChainVectors
    /\ cache = <<>>
    /\ now = 0
    /\ task = [i \in Venues |-> "idle"]
    /\ results = <<>>
    /\ wg = 0
    /\ writer = [i \in Venues |-> 0]
    /\ firstDone = 0
    /\ pricesErr = ""
    /\ resp = NoResponse
    /\ served = 0
    /\ hist = NoHistory
    /\ cachePrices = <<>>
    /\ cacheRet = NoCacheRet
    /\ written = [pairs |-> <<>>, prices |-> <<>>]
    /\ cancelled = FALSE
    /\ token = 0
    /\ quotes = <<>>
    /\ tokenPrice = TokenPriceRet(NilBig, "")
    /\ rlock = 0
    /\ semaphore = 0
    /\ errs = <<>>

\* QuoteHandler.GetQuote up to the point where GetPrices has started its
\* venue tasks; a query that fails validation is answered 400 at once
HandleRequestOf(Q) ==
    /\ pc \in {"idle", "responded"}
    /\ served < MaxRequests
    /\ \E q \in Q :
         LET qIn       == q[1]
             qOut      == q[2]
             qAmount   == q[3]
             qSlippage == q[4]
             code      == ValidateQuery(qIn, qOut, qAmount, qSlippage)
         IN IF code # ""
            THEN /\ resp' = Response(400, code, <<>>)
                 /\ pc' = "responded"
                 /\ served' = served + 1
                 /\ tokenIn' = 0
                 /\ tokenOut' = 0
                 /\ amountIn' = NilInt
                 /\ slippageBps' = 0
                 /\ task' = [i \in Venues |-> "idle"]
                 /\ results' = <<>>
                 /\ wg' = 0
            ELSE /\ resp' = NoResponse
                 /\ pc' = "prices"
                 /\ served' = served
                 /\ tokenIn' = qIn
                 /\ tokenOut' = qOut
                 /\ amountIn' = qAmount
                 /\ slippageBps' = ParsedSlippage(qSlippage)
                 /\ task' = [i \in Venues |-> "get"]
                 /\ results' = [i \in Venues |-> ZeroResult]
                 /\ wg' = Len(dexClients)
    /\ snaps' = [i \in Venues |-> NilPair]
    /\ writer' = [i \in Venues |-> 0]
    /\ firstDone' = 0
    /\ prices' = <<>>
    /\ pricesErr' = ""
    /\ ret' = Ret(NilQuote, "")
    /\ UNCHANGED <<mathVars, intermediateTokens, hopSnaps, chain, cache, now, hist>>
    /\ cancelled' = FALSE
    /\ UNCHANGED <<cacheVars, priceVars, chainVars>>

\* a request carrying any query of the bounds
HandleRequest == HandleRequestOf(Queries)

\* results[idx]: the slot task idx writes
SlotOfCompletionOrder(idx, res) ==
    1 + Cardinality({k \in DOMAIN res : res[k] # ZeroResult})

SlotOf(idx, res) == idx

\* results[idx] = PriceResult{...} followed by the deferred wg.Done()
StoreResult(i, r) ==
    /\ results' = [results EXCEPT ![SlotOf(i, results)] = r]
    /\ writer' = [writer EXCEPT ![SlotOf(i, results)] = i]
    /\ wg' = wg - 1
    /\ firstDone' = IF firstDone = 0 THEN i ELSE firstDone
    /\ task' = [task EXCEPT ![i] = "done"]

\* task i is about to read or write InMemoryCache.pairs
MapAccess(i) == task[i] \in {"get", "set"}

\* the access of task i writes the map: SetPair, or the delete of GetPair on
\* an expired entry
MapWrite(i) ==
    \/ task[i] = "set"
    \/ /\ task[i] = "get"
       /\ LET key == PairCacheKey(dexClients[i], tokenIn, tokenOut)
          IN key \in DOMAIN cache /\ ~(now < cache[key].expiresAt)

\* the map has no lock: the access of task i can run at the same time as the
\* access of another task, one of the two being a write
Racing(i) ==
    /\ MapAccess(i)
    /\ \E j \in Venues \ {i} : MapAccess(j) /\ (MapWrite(i) \/ MapWrite(j))

\* what an unsynchronised map write can leave behind
SetPairOutcomes(i) == IF Racing(i) THEN {"stored", "lost"} ELSE {"stored"}

\* a venue task: cache.GetPair, and on a hit the result.  GetPair returns
\* the pointer the map holds, so GetAmountOut works on the cached snapshot
TaskGetPair(i) ==
    /\ pc = "prices"
    /\ task[i] = "get"
    /\ LET cacheKey   == PairCacheKey(dexClients[i], tokenIn, tokenOut)
           cachedPair == CacheGetPair(cache, cacheKey, now)
       IN /\ cache' = IF cachedPair # NilPair
                     THEN [cache EXCEPT ![cacheKey].pair =
                              PairAfterGetAmountOut(@, amountIn, tokenIn)]
                     ELSE CacheAfterGetPair(cache, cacheKey, now)
          /\ IF cachedPair # NilPair
             THEN /\ snaps' = [snaps EXCEPT ![i] = cachedPair]
                  /\ StoreResult(i, PriceResult(dexClients[i],
                                     GetAmountOut(cachedPair, amountIn, tokenIn),
                                     cachedPair, FALSE))
             ELSE /\ task' = [task EXCEPT ![i] = "fetch"]
                  /\ UNCHANGED <<snaps, results, writer, wg, firstDone>>
    /\ UNCHANGED <<pc, amountIn, tokenIn, mathVars, tokenOut, slippageBps,
                   intermediateTokens, hopSnaps, prices, ret, chain, now,
                   pricesErr, resp, served, hist>>
    /\ UNCHANGED <<cacheVars, cancelled, priceVars, chainVars>>

\* a venue task: c.GetPairByTokens, and on an error the result
TaskFetch(i) ==
    /\ pc = "prices"
    /\ task[i] = "fetch"
    /\ LET pair == GetPairByTokens(i, tokenIn, tokenOut)
       IN /\ snaps' = [snaps EXCEPT ![i] = pair]
          /\ IF pair = ErrPair
             THEN StoreResult(i, PriceResult(dexClients[i], NilInt, NilPair, TRUE))
             ELSE /\ task' = [task EXCEPT ![i] = "set"]
                  /\ UNCHANGED <<results, writer, wg, firstDone>>
    /\ UNCHANGED <<pc, amountIn, tokenIn, mathVars, tokenOut, slippageBps,
                   intermediateTokens, hopSnaps, prices, ret, chain, cache, now,
                   pricesErr, resp, served, hist>>
    /\ UNCHANGED <<cacheVars, cancelled, priceVars, chainVars>>

\* a venue task: cache.SetPair and the result.  SetPair keeps the pointer,
\* so GetAmountOut works on the snapshot the map now holds
TaskSetPair(i) ==
    /\ pc = "prices"
    /\ task[i] = "set"
    /\ LET cacheKey == PairCacheKey(dexClients[i], tokenIn, tokenOut)
       IN \E outcome \in SetPairOutcomes(i) :
            cache' = IF outcome = "stored"
                     THEN CacheAfterSetPair(cache, cacheKey,
                              PairAfterGetAmountOut(snaps[i], amountIn, tokenIn),
                              now, cacheTTL)
                     ELSE cache
    /\ StoreResult(i, PriceResult(dexClients[i],
                       GetAmountOut(snaps[i], amountIn, tokenIn), snaps[i], FALSE))
    /\ UNCHANGED <<pc, amountIn, tokenIn, mathVars, tokenOut, slippageBps, snaps,
                   intermediateTokens, hopSnaps, prices, ret, chain, now,
                   pricesErr, resp, served, hist>>
    /\ UNCHANGED <<cacheVars, cancelled, priceVars, chainVars>>

\* the runtime detects the concurrent map access of task i and aborts the
\* process ("fatal error: concurrent map writes" / "... read and map write"):
\* every goroutine ends and the memory of the process is gone
ConcurrentMapFault(i) ==
    /\ pc = "prices"
    /\ Racing(i)
    /\ pc' = "crashed"
    /\ tokenIn' = 0
    /\ tokenOut' = 0
    /\ amountIn' = NilInt
    /\ slippageBps' = 0
    /\ snaps' = [k \in Venues |-> NilPair]
    /\ cache' = <<>>
    /\ task' = [k \in Venues |-> "idle"]
    /\ results' = <<>>
    /\ wg' = 0
    /\ writer' = [k \in Venues |-> 0]
    /\ firstDone' = 0
    /\ hist' = NoHistory
    /\ UNCHANGED <<mathVars, intermediateTokens, hopSnaps, prices, ret, chain,
                   now, pricesErr, resp, served>>
    /\ cancelled' = FALSE
    /\ UNCHANGED <<cacheVars, priceVars, chainVars>>

\* wg.Wait() returns
WaitReturnsEarly(n) == n <= 1

WaitReturns(n) == n = 0

\* the error GetPrices returns with the results
GetPricesErrorFirst(res) ==
    IF \E k \in DOMAIN res : res[k].Error THEN "adapter error" ELSE ""

GetPricesError(res) == ""

\* GetPrices: wg.Wait(); return results, nil
GetPricesReturn ==
    /\ pc = "prices"
    /\ WaitReturns(wg)
    /\ prices' = results
    /\ pricesErr' = GetPricesError(results)
    /\ pc' = "routing"
    /\ UNCHANGED <<amountIn, tokenIn, mathVars, tokenOut, slippageBps, snaps,
                   intermediateTokens, hopSnaps, ret, chain, cache, now, task,
                   results, wg, writer, firstDone, resp, served, hist>>
    /\ UNCHANGED <<cacheVars, cancelled, priceVars, chainVars>>

\* the rest of GetSmartQuote and of the handler: the quote or the error, and
\* the response.  The snapshots of the venues that answered are the ones the
\* map holds under the keys of the request, and the router reads their
\* reserves through Pair.GetAmountOut (the whole amount, the split amounts
\* and the probe of the spot estimate)
Respond ==
    /\ pc = "routing"
    /\ ret' = IF pricesErr # ""
              THEN Ret(NilQuote, "failed to get prices")
              ELSE GetSmartQuote(prices, tokenIn, tokenOut, amountIn, slippageBps)
    /\ resp' = IF ret'.err # ""
               THEN Response(404, "no_route", <<>>)
               ELSE Response(200, "", buildQuoteResponse(ret'.quote))
    /\ served' = served + 1
    /\ hist' = IF hist.answered \/ cancelled THEN hist
               ELSE [answered |-> TRUE, tokenIn |-> tokenIn, tokenOut |-> tokenOut,
                     amountIn |-> amountIn, slippageBps |-> slippageBps,
                     ret |-> ret', resp |-> resp', servedAt |-> served']
    /\ pc' = "responded"
    /\ cache' =
         [k \in DOMAIN cache |->
            IF \E i \in DOMAIN prices :
                  /\ ~prices[i].Error
                  /\ k = PairCacheKey(dexClients[i], tokenIn, tokenOut)
            THEN [cache[k] EXCEPT
                    !.pair = PairAfterGetAmountOut(@, amountIn, tokenIn)]
            ELSE cache[k]]
    /\ UNCHANGED <<amountIn, tokenIn, mathVars, tokenOut, slippageBps, snaps,
                   intermediateTokens, hopSnaps, prices, chain, now, task,
                   results, wg, writer, firstDone, pricesErr>>
    /\ UNCHANGED <<cacheVars, cancelled, priceVars, chainVars>>

\* the context of the request in flight is cancelled (the client went away)
\* or reaches its deadline
Cancel ==
    /\ pc \in {"prices", "routing"}
    /\ ~cancelled
    /\ cancelled' = TRUE
    /\ UNCHANGED <<pc, amountIn, tokenIn, mathVars, routerVars, chain, cache,
                   now, task, results, wg, writer, firstDone, pricesErr, resp,
                   served, hist, cacheVars, priceVars, chainVars>>

\* time passes
Tick ==
    /\ pc # "crashed"
    /\ now + TickSeconds <= MaxTime
    /\ now' = now + TickSeconds
    /\ UNCHANGED <<pc, amountIn, tokenIn, mathVars, routerVars, chain, cache,
                   task, results, wg, writer, firstDone, pricesErr, resp,
                   served, hist>>
    /\ UNCHANGED <<cacheVars, cancelled, priceVars, chainVars>>

Next ==
    \/ HandleRequest
    \/ \E i \in Venues : TaskGetPair(i)
    \/ \E i \in Venues : TaskFetch(i)
    \/ \E i \in Venues : TaskSetPair(i)
    \/ \E i \in Venues : ConcurrentMapFault(i)
    \/ GetPricesReturn
    \/ Respond
    \/ Tick

Spec == Init /\ [][Next]_vars

\* ------------------------------------------------------------------------
\* SpecCancel: the quote endpoint when the context of a request can be
\* cancelled while the request is in flight
\* ------------------------------------------------------------------------
\* the requests of SpecCancel carry one accepted and one rejected query
NextCancel ==
    \/ HandleRequestOf({<<TokenA, TokenB, 47, NoParam>>,
                        <<TokenA, TokenB, 0, NoParam>>})
    \/ \E i \in Venues : TaskGetPair(i)
    \/ \E i \in Venues : TaskFetch(i)
    \/ \E i \in Venues : TaskSetPair(i)
    \/ \E i \in Venues : ConcurrentMapFault(i)
    \/ GetPricesReturn
    \/ Respond
    \/ Cancel
    \/ Tick

SpecCancel == Init /\ [][NextCancel]_vars

\* ------------------------------------------------------------------------
\* SpecCache: the operations of InMemoryCache called one after the other by
\* a single caller, while time passes
\* ------------------------------------------------------------------------
\* the last instant of SpecCache, in seconds
MaxCacheTime == 2

CacheKeys   == {PairCacheKey("uniswap_v2", TokenA, TokenB), PriceCacheKey(TokenA)}
CachePairs  == {Pair(TokenA, TokenB, 100, 200, "uniswap_v2", 30),
                Pair(TokenA, TokenB, 200, 200, "uniswap_v2", 30)}
\* SetPrice and GetPrice are called with the key PriceCacheKey(TokenA), the
\* Sets with a ttl of 1 or 2 seconds; written records a Set as its value,
\* time and ttl

InitCache ==
    /\ pc = "cache"
    /\ p = NilPair
    /\ amountOut = NilInt
    /\ tokenIn = 0
    /\ tokenOut = 0
    /\ amountIn = NilInt
    /\ slippageBps = 0
    /\ snaps = <<>>
    /\ intermediateTokens = <<>>
    /\ hopSnaps = <<>>
    /\ prices = <<>>
    /\ ret = Ret(NilQuote, "")
    /\ PipeIdle

CacheUnchanged ==
    UNCHANGED <<pc, amountIn, tokenIn, mathVars, routerVars, chain, now, task,
                results, wg, writer, firstDone, pricesErr, resp, served, hist,
                cancelled, priceVars, chainVars>>

CallGetPair ==
    \E key \in CacheKeys :
        /\ cacheRet' = [op |-> "GetPair", key |-> key,
                        pair |-> CacheGetPair(cache, key, now),
                        price |-> "", err |-> "", at |-> now]
        /\ cache' = CacheAfterGetPair(cache, key, now)
        /\ UNCHANGED <<cachePrices, written>>
        /\ CacheUnchanged

CallSetPair ==
    \E key \in CacheKeys, pr \in CachePairs, ttl \in {1, 2} :
        /\ cache' = CacheAfterSetPair(cache, key, pr, now, ttl)
        /\ cacheRet' = [op |-> "SetPair", key |-> key, pair |-> NilPair,
                        price |-> "", err |-> "", at |-> now]
        /\ written' = [written EXCEPT !.pairs =
                          [k \in DOMAIN written.pairs \cup {key} |->
                             IF k = key THEN [value |-> pr, at |-> now, ttl |-> ttl]
                             ELSE written.pairs[k]]]
        /\ UNCHANGED cachePrices
        /\ CacheUnchanged

CallGetPrice ==
    \E key \in {PriceCacheKey(TokenA)} :
        /\ cacheRet' = [op |-> "GetPrice", key |-> key, pair |-> NilPair,
                        price |-> CacheGetPrice(cachePrices, key, now),
                        err |-> "", at |-> now]
        /\ cachePrices' = CacheAfterGetPrice(cachePrices, key, now)
        /\ UNCHANGED <<cache, written>>
        /\ CacheUnchanged

CallSetPrice ==
    \E key \in {PriceCacheKey(TokenA)}, price \in {"1", "2"}, ttl \in {1, 2} :
        /\ cachePrices' = CacheAfterSetPrice(cachePrices, key, price, now, ttl)
        /\ cacheRet' = [op |-> "SetPrice", key |-> key, pair |-> NilPair,
                        price |-> "", err |-> "", at |-> now]
        /\ written' = [written EXCEPT !.prices =
                          [k \in DOMAIN written.prices \cup {key} |->
                             IF k = key THEN [value |-> price, at |-> now, ttl |-> ttl]
                             ELSE written.prices[k]]]
        /\ UNCHANGED cache
        /\ CacheUnchanged

CallDelete ==
    \E key \in CacheKeys :
        /\ cache' = CacheAfterDelete(cache, key)
        /\ cachePrices' = CacheAfterDelete(cachePrices, key)
        /\ cacheRet' = [op |-> "Delete", key |-> key, pair |-> NilPair,
                        price |-> "", err |-> "", at |-> now]
        /\ written' = [pairs  |-> CacheAfterDelete(written.pairs, key),
                       prices |-> CacheAfterDelete(written.prices, key)]
        /\ CacheUnchanged

\* a second passes
CacheTick ==
    /\ now < MaxCacheTime
    /\ now' = now + 1
    /\ UNCHANGED <<pc, amountIn, tokenIn, mathVars, routerVars, chain, cache,
                   task, results, wg, writer, firstDone, pricesErr, resp,
                   served, hist, cacheVars, cancelled, priceVars, chainVars>>

NextCache ==
    \/ CallGetPair
    \/ CallSetPair
    \/ CallGetPrice
    \/ CallSetPrice
    \/ CallDelete
    \/ CacheTick

SpecCache == InitCache /\ [][NextCache]_vars

\* ------------------------------------------------------------------------
\* SpecPrice: the price endpoint, PriceHandler.GetPrice, applied to every
\* token and every set of results of the bounds.  GetPrices is taken at its
\* join, as in SpecRouter.
\* ------------------------------------------------------------------------
\* the "." of a formatted price, in a string of digits
DecimalPoint == -2

\* formatPrice
formatPrice(price) ==
    LET priceStr == BigDigits(price)
    IN IF Len(priceStr) <= 18
       THEN <<0, DecimalPoint>> \o [i \in 1 .. (18 - Len(priceStr)) |-> 0]
              \o priceStr
       ELSE LET decimalPos == Len(priceStr) - 18
            IN SubSeq(priceStr, 1, decimalPos) \o <<DecimalPoint>>
                 \o SubSeq(priceStr, decimalPos + 1, decimalPos + 2)

\* PriceResponse (UpdatedAt left out)
PriceResponse(tok, priceUSD) == [Token |-> tok, PriceUSD |-> priceUSD]

\* a result of GetPrices with amountOut a, or with an error when a is nil;
\* GetBestPrice does not read the snapshot and its reserves are left out
PriceQuote(dex, a) ==
    IF a = NilBig THEN PriceResult(dex, NilBig, NilPair, TRUE)
    ELSE PriceResult(dex, a, Pair(0, 0, NilInt, NilInt, dex, 0), FALSE)

\* the amounts each venue can quote in USDC (6 decimals): 3245.67, 0.5, 0
\* from the V3 snapshot, 3000; and in WETH (wei): 0.0001 WETH, 123 wei, 0,
\* 0.0005 WETH; nil stands for an adapter error
UsdcAmounts ==
    << {NilBig, BigNorm(324567, 4), BigNorm(5, 5)},
       {NilBig, BigNorm(0, 0)},
       {NilBig, BigNorm(3, 9)} >>
WethAmounts ==
    << {NilBig, BigNorm(1, 14), BigNorm(123, 0)},
       {NilBig, BigNorm(0, 0)},
       {NilBig, BigNorm(5, 14)} >>

QuoteVectors(amounts) ==
    {<<PriceQuote(dexClients[1], a1), PriceQuote(dexClients[2], a2),
       PriceQuote(dexClients[3], a3)>> :
        a1 \in amounts[1], a2 \in amounts[2], a3 \in amounts[3]}

InitPrice ==
    /\ pc = "price_call"
    /\ p = NilPair
    /\ amountOut = NilInt
    /\ tokenIn = 0
    /\ tokenOut = 0
    /\ amountIn = NilInt
    /\ slippageBps = 0
    /\ snaps = <<>>
    /\ intermediateTokens = <<>>
    /\ hopSnaps = <<>>
    /\ prices = <<>>
    /\ ret = Ret(NilQuote, "")
    /\ chain = <<>>
    /\ cache = <<>>
    /\ now = 0
    /\ task = [i \in Venues |-> "idle"]
    /\ results = <<>>
    /\ wg = 0
    /\ writer = [i \in Venues |-> 0]
    /\ firstDone = 0
    /\ pricesErr = ""
    /\ resp = NoResponse
    /\ served = 0
    /\ hist = NoHistory
    /\ cachePrices = <<>>
    /\ cacheRet = NoCacheRet
    /\ written = [pairs |-> <<>>, prices |-> <<>>]
    /\ cancelled = FALSE
    /\ token \in {BadParam, USDC, WETH, USDT}
    /\ \E direct \in QuoteVectors(UsdcAmounts),
          viaWeth \in QuoteVectors(WethAmounts),
          wethUsdc \in QuoteVectors(UsdcAmounts) :
         quotes = [k \in {<<USDT, USDC, BigExp10(Decimals(USDT))>>,
                           <<USDT, WETH, BigExp10(Decimals(USDT))>>,
                           <<WETH, USDC, BigExp10(Decimals(WETH))>>} |->
                     IF k[1] = WETH THEN wethUsdc
                     ELSE IF k[2] = USDC THEN direct ELSE viaWeth]
    /\ tokenPrice = TokenPriceRet(NilBig, "")
    /\ rlock = 0
    /\ semaphore = 0
    /\ errs = <<>>

\* PriceHandler.GetPrice
HandlePriceRequest ==
    /\ pc = "price_call"
    /\ IF token = BadParam
       THEN /\ resp' = Response(400, "invalid_token", <<>>)
            /\ tokenPrice' = tokenPrice
       ELSE /\ tokenPrice' = GetTokenPrice(token, quotes)
            /\ resp' = IF tokenPrice'.err # ""
                       THEN Response(404, "price_not_found", <<>>)
                       ELSE Response(200, "",
                              PriceResponse(token, formatPrice(tokenPrice'.price)))
    /\ pc' = "price_done"
    /\ UNCHANGED <<amountIn, tokenIn, mathVars, routerVars, chain, cache, now,
                   task, results, wg, writer, firstDone, pricesErr, served,
                   hist, cacheVars, cancelled, token, quotes, chainVars>>

NextPrice == HandlePriceRequest

SpecPrice == InitPrice /\ [][NextPrice]_vars

\* ------------------------------------------------------------------------
\* SpecChain: the chain client.  One Multicall runs its calls in goroutines
\* while other goroutines (venue adapters, which call CallContract directly,
\* and the tasks of other batches) are inside CallContract as well.
\* ------------------------------------------------------------------------
\* the capacity of the semaphore channel Multicall makes
semaphoreSize == 10

\* the largest number of calls of the batch
MaxCalls == 3

\* the largest number of callers inside CallContract that do not belong to
\* the batch
MaxCallers == 9

\* what the SpecChain actions leave alone
chainFrame ==
    <<amountIn, tokenIn, mathVars, tokenOut, slippageBps, snaps,
      intermediateTokens, hopSnaps, prices, chain, cache, now, writer,
      firstDone, pricesErr, resp, served, hist, cacheVars, cancelled,
      priceVars>>

\* a nil []byte and a nil error
NilValue == <<>>

\* what Multicall returns
MulticallRet(res, err) == [results |-> res, err |-> err]

\* the error Multicall returns that is the one of the last failed call
MulticallErrorLast(es) ==
    IF \A i \in DOMAIN es : es[i] = NilValue THEN NilValue
    ELSE es[CHOOSE i \in DOMAIN es :
                /\ es[i] # NilValue
                /\ \A j \in DOMAIN es : j > i => es[j] = NilValue]

\* the error Multicall returns: the loop over errs returns the first non-nil
\* one, nil when there is none
MulticallError(es) ==
    IF \A i \in DOMAIN es : es[i] = NilValue THEN NilValue
    ELSE es[CHOOSE i \in DOMAIN es :
                /\ es[i] # NilValue
                /\ \A j \in DOMAIN es : j < i => es[j] = NilValue]

\* the tasks of the batch that are inside CallContract
BatchReaders == Cardinality({i \in DOMAIN task : task[i] = "inflight"})

InitChain ==
    /\ pc = "chain_idle"
    /\ p = NilPair
    /\ amountOut = NilInt
    /\ tokenIn = 0
    /\ tokenOut = 0
    /\ amountIn = NilInt
    /\ slippageBps = 0
    /\ snaps = <<>>
    /\ intermediateTokens = <<>>
    /\ hopSnaps = <<>>
    /\ prices = <<>>
    /\ ret = MulticallRet(<<>>, NilValue)
    /\ PipeIdle

\* Multicall up to wg.Wait(): results and errs are made and one goroutine is
\* started for every call
CallMulticall ==
    /\ pc = "chain_idle"
    /\ \E n \in 0 .. MaxCalls :
         /\ results' = [i \in 1 .. n |-> NilValue]
         /\ errs' = [i \in 1 .. n |-> NilValue]
         /\ task' = [i \in 1 .. n |-> "acquire"]
         /\ wg' = n
    /\ semaphore' = 0
    /\ pc' = "multicall"
    /\ UNCHANGED <<chainFrame, ret, rlock>>

\* goroutine idx: semaphore <- struct{}{}
MulticallAcquire(idx) ==
    /\ pc = "multicall"
    /\ task[idx] = "acquire"
    /\ semaphore < semaphoreSize
    /\ semaphore' = semaphore + 1
    /\ task' = [task EXCEPT ![idx] = "call"]
    /\ UNCHANGED <<pc, chainFrame, ret, rlock, results, errs, wg>>

\* goroutine idx: c.CallContract takes the read lock and sends the call
MulticallCall(idx) ==
    /\ pc = "multicall"
    /\ task[idx] = "call"
    /\ rlock' = rlock + 1
    /\ task' = [task EXCEPT ![idx] = "inflight"]
    /\ UNCHANGED <<pc, chainFrame, ret, semaphore, results, errs, wg>>

\* goroutine idx: the call returns the bytes of the answer or an error (that
\* of the node, or that of a context that is done); the read lock is
\* released, results[idx] and errs[idx] are assigned, and the deferred
\* functions give the token back and call wg.Done()
MulticallCallReturns(idx) ==
    /\ pc = "multicall"
    /\ task[idx] = "inflight"
    /\ rlock' = rlock - 1
    /\ \E ok \in BOOLEAN :
         /\ results' = [results EXCEPT
                          ![idx] = IF ok THEN <<"bytes", idx>> ELSE NilValue]
         /\ errs' = [errs EXCEPT
                       ![idx] = IF ok THEN NilValue ELSE <<"error", idx>>]
         /\ task' = [task EXCEPT ![idx] = IF ok THEN "ok" ELSE "failed"]
    /\ semaphore' = semaphore - 1
    /\ wg' = wg - 1
    /\ UNCHANGED <<pc, chainFrame, ret>>

\* Multicall from wg.Wait() on
MulticallReturn ==
    /\ pc = "multicall"
    /\ WaitReturns(wg)
    /\ ret' = MulticallRet(results, MulticallError(errs))
    /\ pc' = "multicall_done"
    /\ UNCHANGED <<chainFrame, rlock, semaphore, results, errs, wg, task>>

\* a goroutine outside the batch enters CallContract: the read lock admits
\* any number of readers
CallContract ==
    /\ rlock - BatchReaders < MaxCallers
    /\ rlock' = rlock + 1
    /\ UNCHANGED <<pc, chainFrame, ret, semaphore, results, errs, wg, task>>

\* the call of a goroutine outside the batch returns
CallContractReturns ==
    /\ rlock - BatchReaders > 0
    /\ rlock' = rlock - 1
    /\ UNCHANGED <<pc, chainFrame, ret, semaphore, results, errs, wg, task>>

NextChain ==
    \/ CallMulticall
    \/ \E idx \in DOMAIN task : MulticallAcquire(idx)
    \/ \E idx \in DOMAIN task : MulticallCall(idx)
    \/ \E idx \in DOMAIN task : MulticallCallReturns(idx)
    \/ MulticallReturn
    \/ CallContract
    \/ CallContractReturns

SpecChain == InitChain /\ [][NextChain]_vars

\* ------------------------------------------------------------------------
\* SpecSort: UniswapV2Client.GetPairByTokens on two addresses in full.  An
\* address is its sequence of hex digits (nibbles, most significant first)
\* together with the bits of the Keccak-256 hash that EIP-55 reads for it:
\* Address.Hex() renders a digit above 9 as an upper-case letter where the bit
\* is set and as a lower-case letter where it is not.  The hash is not
\* computed; the bits of two different addresses are drawn freely.
\* ------------------------------------------------------------------------
\* the number of hex digits of an address of the model (40 in the program)
AddrDigits == 2

\* the hex digits the addresses of the model are made of
AddrNibbles == {1, 10, 12}

\* Address.Hex() without the leading "0x": the byte of every character
Hex(a) ==
    [i \in 1 .. Len(a.digits) |->
        IF a.digits[i] < 10 THEN 48 + a.digits[i]
        ELSE IF a.upper[i] THEN 55 + a.digits[i]
        ELSE 87 + a.digits[i]]

\* s < t on two Go strings of the same length: the bytes at the first
\* position where they differ decide
StringLess(s, t) ==
    \E i \in 1 .. Len(s) :
        /\ s[i] < t[i]
        /\ \A j \in 1 .. (i - 1) : s[j] = t[j]

\* UniswapV2Client.GetPairByTokens(tokenA, tokenB) when getReserves of the
\* pair contract answers reserves (<<>>: the factory knows no pair): token0
\* is the token whose Hex() is the smaller string, and Reserve0 the first
\* word of the answer
UniswapV2GetPairByTokens(tokenA, tokenB, reserves) ==
    IF reserves = <<>> THEN ErrPair
    ELSE IF StringLess(Hex(tokenA), Hex(tokenB))
         THEN Pair(tokenA, tokenB, reserves[1], reserves[2], "uniswap_v2", 30)
         ELSE Pair(tokenB, tokenA, reserves[1], reserves[2], "uniswap_v2", 30)

\* two different addresses in request order, and the answer of the pair
\* contract, which holds 100 of the token with the smaller address and 200
\* of the other
InitSort ==
    /\ pc = "sort_call"
    /\ p = NilPair
    /\ amountOut = NilInt
    /\ \E da \in [1 .. AddrDigits -> AddrNibbles],
          db \in [1 .. AddrDigits -> AddrNibbles],
          ua \in [1 .. AddrDigits -> BOOLEAN],
          ub \in [1 .. AddrDigits -> BOOLEAN] :
         /\ da # db
         /\ tokenIn = [digits |-> da, upper |-> ua]
         /\ tokenOut = [digits |-> db, upper |-> ub]
    /\ amountIn = NilInt
    /\ slippageBps = 0
    /\ snaps = <<>>
    /\ intermediateTokens = <<>>
    /\ hopSnaps = <<>>
    /\ prices = <<>>
    /\ ret = Ret(NilQuote, "")
    /\ \E reserves \in {<<>>, <<100, 200>>} :
         /\ chain = reserves
         /\ cache = <<>>
         /\ now = 0
         /\ task = [i \in Venues |-> "idle"]
         /\ results = <<>>
         /\ wg = 0
         /\ writer = [i \in Venues |-> 0]
         /\ firstDone = 0
         /\ pricesErr = ""
         /\ resp = NoResponse
         /\ served = 0
         /\ hist = NoHistory
         /\ cachePrices = <<>>
         /\ cacheRet = NoCacheRet
         /\ written = [pairs |-> <<>>, prices |-> <<>>]
         /\ cancelled = FALSE
         /\ token = 0
         /\ quotes = <<>>
         /\ tokenPrice = TokenPriceRet(NilBig, "")
         /\ rlock = 0
         /\ semaphore = 0
         /\ errs = <<>>

CallGetPairByTokens ==
    /\ pc = "sort_call"
    /\ p' = UniswapV2GetPairByTokens(tokenIn, tokenOut, chain)
    /\ pc' = "sort_done"
    /\ UNCHANGED <<amountIn, tokenIn, amountOut, routerVars, pipeVars>>

SpecSort == InitSort /\ [][CallGetPairByTokens]_vars

\* ------------------------------------------------------------------------
\* Claims on Pair.GetAmountOut
\* ------------------------------------------------------------------------
\* the reserves the claim's formula reads for the call's tokenIn
ClaimReserveIn  == IF tokenIn = p.Token0 THEN p.Reserve0 ELSE p.Reserve1
ClaimReserveOut == IF tokenIn = p.Token0 THEN p.Reserve1 ELSE p.Reserve0

\* C9: GetAmountOut(amountIn, tokenIn) is
\* floor(amountIn*(10000-fee)*reserveOut / (reserveIn*10000 + amountIn*(10000-fee)))
\* with (reserveIn, reserveOut) = (reserve0, reserve1) when tokenIn is token0
\* and (reserve1, reserve0) otherwise, and 0 when amountIn <= 0 or absent or
\* when either reserve is zero or absent.
C9_AmountOutFormula ==
    pc = "math_done" =>
        IF amountIn = NilInt \/ amountIn <= 0
           \/ ClaimReserveIn = NilInt \/ ClaimReserveOut = NilInt
           \/ ClaimReserveIn = 0 \/ ClaimReserveOut = 0
        THEN amountOut = 0
        ELSE amountOut =
               (amountIn * (10000 - p.Fee) * ClaimReserveOut)
                 \div (ClaimReserveIn * 10000 + amountIn * (10000 - p.Fee))

\* C9 witness: a call with tokenIn = token1 on unequal positive reserves that
\* returned a positive amount
C9_Witness ==
    /\ pc = "math_done"
    /\ tokenIn = p.Token1
    /\ p.Reserve0 > 0 /\ p.Reserve1 > 0 /\ p.Reserve0 # p.Reserve1
    /\ amountIn > 0
    /\ amountOut > 0

\* C10: with the reserves, tokenIn and amountIn of the call unchanged, every
\* fee f2 >= the pair's fee (both in [0, 10000)) yields an amountOut that is
\* at most the one returned.
C10_FeeMonotone ==
    pc = "math_done" /\ p.Fee < 10000 =>
        \A f2 \in FeeSet :
            (p.Fee <= f2 /\ f2 < 10000) =>
                GetAmountOut([p EXCEPT !.Fee = f2], amountIn, tokenIn) <= amountOut

\* C10 witness: a call whose output is strictly larger than the output of the
\* same call under some higher fee
C10_Witness ==
    /\ pc = "math_done"
    /\ amountOut > 0
    /\ \E f2 \in FeeSet :
          /\ p.Fee < f2 /\ f2 < 10000
          /\ GetAmountOut([p EXCEPT !.Fee = f2], amountIn, tokenIn) < amountOut

\* the pair of the call with both reserves multiplied by k
ClaimScaled(k) ==
    [p EXCEPT !.Reserve0 = k * p.Reserve0, !.Reserve1 = k * p.Reserve1]

ClaimPositiveReserves ==
    /\ p.Reserve0 # NilInt /\ p.Reserve1 # NilInt
    /\ p.Reserve0 > 0 /\ p.Reserve1 > 0

\* C11 as stated: scaling both reserves by the same positive factor leaves
\* amountOut unchanged up to floor rounding (at most 1 unit).
C11_DepthUnchanged ==
    (pc = "math_done" /\ ClaimPositiveReserves /\ amountIn # NilInt) =>
        \A k \in 1 .. MaxScale :
            LET scaled == GetAmountOut(ClaimScaled(k), amountIn, tokenIn)
            IN scaled - amountOut <= 1 /\ amountOut - scaled <= 1

\* C11 amended: scaling both reserves by the same factor k >= 1 never lowers
\* amountOut, for every amountIn and fee (a deeper pool gives at least as
\* much; the output is not unchanged in general).
C11_DepthMonotone ==
    (pc = "math_done" /\ ClaimPositiveReserves /\ amountIn # NilInt) =>
        \A k \in 1 .. MaxScale :
            GetAmountOut(ClaimScaled(k), amountIn, tokenIn) >= amountOut

\* C11 witness: a call whose output grows by more than one unit when the
\* reserves are doubled
C11_Witness ==
    /\ pc = "math_done"
    /\ ClaimPositiveReserves
    /\ amountIn # NilInt /\ amountIn > 0
    /\ amountOut > 0
    /\ GetAmountOut(ClaimScaled(2), amountIn, tokenIn) > amountOut + 1

\* ------------------------------------------------------------------------
\* Claims on InMemoryCache (SpecCache)
\* ------------------------------------------------------------------------
\* C12: after SetPair(key, p, ttl) at time t with no later SetPair or Delete
\* on key, GetPair(key) returns p at every time strictly before t + ttl, and
\* at or after t + ttl it returns a miss (no value, no error) and the entry
\* is gone from the map; no call reports a miss as an error; the same holds
\* of SetPrice and GetPrice.
C12_CacheExpiry ==
    /\ cacheRet.err = ""
    /\ (cacheRet.op = "GetPair" /\ cacheRet.key \in DOMAIN written.pairs) =>
          LET w == written.pairs[cacheRet.key]
          IN IF cacheRet.at < w.at + w.ttl
             THEN cacheRet.pair = w.value
             ELSE cacheRet.pair = NilPair /\ cacheRet.key \notin DOMAIN cache
    /\ (cacheRet.op = "GetPair" /\ cacheRet.key \notin DOMAIN written.pairs) =>
          cacheRet.pair = NilPair
    /\ (cacheRet.op = "GetPrice" /\ cacheRet.key \in DOMAIN written.prices) =>
          LET w == written.prices[cacheRet.key]
          IN IF cacheRet.at < w.at + w.ttl
             THEN cacheRet.price = w.value
             ELSE cacheRet.price = "" /\ cacheRet.key \notin DOMAIN cachePrices
    /\ (cacheRet.op = "GetPrice" /\ cacheRet.key \notin DOMAIN written.prices) =>
          cacheRet.price = ""

\* C12 witness: a GetPair exactly at the expiry of the entry written last,
\* which missed and purged it, while a price written under the same key is
\* still held
C12_Witness ==
    /\ cacheRet.op = "GetPair"
    /\ cacheRet.key \in DOMAIN written.pairs
    /\ cacheRet.at = written.pairs[cacheRet.key].at
                       + written.pairs[cacheRet.key].ttl
    /\ cacheRet.pair = NilPair
    /\ cacheRet.key \notin DOMAIN cache
    /\ cacheRet.key \in DOMAIN cachePrices

\* ------------------------------------------------------------------------
\* Claims on the router (SpecRouter)
\* ------------------------------------------------------------------------
\* the venues whose result is valid: no error, a snapshot, amountOut > 0
ClaimValidVenues ==
    {i \in DOMAIN prices : /\ ~prices[i].Error
                           /\ prices[i].Pair # NilPair
                           /\ prices[i].AmountOut # NilInt
                           /\ prices[i].AmountOut > 0}

\* the largest single-venue amountOut among the valid venues
ClaimBestSingle ==
    CHOOSE m \in {prices[i].AmountOut : i \in ClaimValidVenues} :
        \A i \in ClaimValidVenues : prices[i].AmountOut <= m

SmartQuoteReturned == pc = "smart_done" /\ ret.err = ""

Legs == ret.quote.SplitRoutes

\* C1: the amountOut of the quote GetSmartQuote returns is at least the best
\* single-venue amountOut; a quote with split legs has the legs' total as its
\* amountOut and that total is strictly greater than the best single-venue
\* amountOut; a quote without legs is the best single-venue route.
C1_SplitDominance ==
    SmartQuoteReturned =>
        /\ ClaimValidVenues # {}
        /\ ret.quote.AmountOut >= ClaimBestSingle
        /\ Legs # <<>> =>
              /\ ret.quote.AmountOut = Legs[1].AmountOut + Legs[2].AmountOut
              /\ ret.quote.AmountOut > ClaimBestSingle
        /\ Legs = <<>> =>
              /\ ret.quote.AmountOut = ClaimBestSingle
              /\ ret.quote.BestRoute.AmountOut = ClaimBestSingle
              /\ \E i \in ClaimValidVenues :
                    /\ prices[i].AmountOut = ClaimBestSingle
                    /\ ret.quote.BestRoute.Hops[1].Pair = prices[i].Pair

\* C1 witness: a split was adopted over at least two valid venues
C1_Witness ==
    /\ SmartQuoteReturned
    /\ Cardinality(ClaimValidVenues) >= 2
    /\ Legs # <<>>
    /\ ret.quote.AmountOut > ClaimBestSingle

\* C2: the amountIn of the legs of a returned split add up to the request's
\* amountIn: the first leg is floor(amountIn * percentage / 100), the last
\* leg is the remainder.
C2_SplitLegSum ==
    (SmartQuoteReturned /\ Legs # <<>>) =>
        /\ Len(Legs) = 2
        /\ Legs[1].AmountIn + Legs[2].AmountIn = amountIn
        /\ Legs[1].AmountIn = (amountIn * Legs[1].Percentage) \div 100
        /\ Legs[2].AmountIn = amountIn - Legs[1].AmountIn
        /\ Legs[1].Route.AmountIn = Legs[1].AmountIn
        /\ Legs[2].Route.AmountIn = Legs[2].AmountIn

\* C2 witness: a split of an amountIn that the percentage does not divide
C2_Witness ==
    /\ SmartQuoteReturned
    /\ Legs # <<>>
    /\ (amountIn * Legs[1].Percentage) % 100 # 0
    /\ Legs[1].AmountIn # Legs[2].AmountIn

\* C3: for a requested slippageBps in [0, 10000] the returned quote carries
\* the requested value (50 when 0 was requested), minAmountOut is
\* floor(amountOut * (10000 - slippageBps) / 10000), and
\* 0 <= minAmountOut <= amountOut.
C3_SlippageProtection ==
    (SmartQuoteReturned /\ slippageBps \in 0 .. 10000) =>
        LET effective == IF slippageBps = 0 THEN 50 ELSE slippageBps
        IN /\ ret.quote.SlippageBps = effective
           /\ ret.quote.MinAmountOut =
                 (ret.quote.AmountOut * (10000 - effective)) \div 10000
           /\ 0 <= ret.quote.MinAmountOut
           /\ ret.quote.MinAmountOut <= ret.quote.AmountOut

\* C3 witness: slippage 0 was requested and the default took a unit off
C3_Witness ==
    /\ SmartQuoteReturned
    /\ slippageBps = 0
    /\ ret.quote.SlippageBps = 50
    /\ ret.quote.MinAmountOut < ret.quote.AmountOut

\* C4: the priceImpact of every quote returned by GetQuote, GetSmartQuote or
\* GetMultiHopQuote lies in [0, 10000].
C4_PriceImpactBounds ==
    (pc \in {"quote_done", "smart_done", "multihop_done"} /\ ret.err = "") =>
        /\ ret.quote.PriceImpact # NilInt
        /\ 0 <= ret.quote.PriceImpact
        /\ ret.quote.PriceImpact <= 10000

\* C4 witness: a split quote whose weighted impact is strictly inside the
\* bounds
C4_Witness ==
    /\ SmartQuoteReturned
    /\ Legs # <<>>
    /\ ret.quote.PriceImpact > 0
    /\ ret.quote.PriceImpact < 10000

\* ------------------------------------------------------------------------
\* Claims on the quote endpoint (Spec)
\* ------------------------------------------------------------------------
\* a valid request has been answered: GetSmartQuote returned and the handler
\* wrote the response
RequestAnswered == pc = "responded" /\ resp.status # 400

\* GetPrices has returned to GetSmartQuote
GetPricesReturned == pc = "routing" \/ RequestAnswered

\* the amountOut the constant-product formula gives snapshot pr for the
\* request's amountIn and tokenIn
ClaimYield(pr) ==
    LET rIn  == IF tokenIn = pr.Token0 THEN pr.Reserve0 ELSE pr.Reserve1
        rOut == IF tokenIn = pr.Token0 THEN pr.Reserve1 ELSE pr.Reserve0
    IN IF rIn <= 0 \/ rOut <= 0 THEN 0
       ELSE (amountIn * (10000 - pr.Fee) * rOut)
              \div (rIn * 10000 + amountIn * (10000 - pr.Fee))

\* adapter i fails for the request (the chain has no pool for it, or its call
\* was made on a context that was done) / yields a snapshot with
\* amountOut > 0
ClaimAdapterFails(i)  ==
    chain[i] = ErrPair \/ (cancelled /\ snaps[i] = ErrPair)
ClaimAdapterYields(i) == ~ClaimAdapterFails(i) /\ ClaimYield(chain[i]) > 0

\* the venue kinds a quote names: the hops of its route and of its legs
ClaimQuoteVenues(q) ==
    {q.BestRoute.Hops[k].Pair.DEX : k \in DOMAIN q.BestRoute.Hops}
      \cup UNION {{q.SplitRoutes[l].Route.Hops[k].Pair.DEX :
                      k \in DOMAIN q.SplitRoutes[l].Route.Hops} :
                  l \in DOMAIN q.SplitRoutes}

\* C5: when every adapter returned an error, no snapshot, or a snapshot
\* whose amountOut is 0, GetSmartQuote and GetQuote return an error and no
\* quote, and the endpoint answers 404 with error code no_route.
C5_NoRoute ==
    (RequestAnswered
       /\ \A i \in Venues : \/ prices[i].Error
                            \/ prices[i].Pair = NilPair
                            \/ prices[i].AmountOut = 0) =>
        /\ ret.err # ""
        /\ ret.quote = NilQuote
        /\ GetQuote(prices, tokenIn, tokenOut, amountIn).err # ""
        /\ GetQuote(prices, tokenIn, tokenOut, amountIn).quote = NilQuote
        /\ resp.status = 404
        /\ resp.error = "no_route"
        /\ resp.body = <<>>

\* C5 witness: a 404 where one adapter failed and another returned a pool
\* with positive reserves whose amountOut rounds to 0
C5_Witness ==
    /\ RequestAnswered
    /\ resp.status = 404
    /\ resp.error = "no_route"
    /\ \E i \in Venues : prices[i].Error
    /\ \E i \in Venues : /\ ~prices[i].Error
                         /\ prices[i].AmountOut = 0
                         /\ prices[i].Pair.Reserve0 > 0
                         /\ prices[i].Pair.Reserve1 > 0

\* C6: GetPrices never returns an error; when at least one adapter yields a
\* snapshot with amountOut > 0, GetSmartQuote returns a quote (the endpoint
\* answers 200) whatever the other adapters did, and no venue whose adapter
\* failed is in the sources, the route or the legs of the quote.
C6_AdapterFailureNotFatal ==
    /\ pricesErr = ""
    /\ (RequestAnswered /\ \E i \in Venues : ClaimAdapterYields(i)) =>
          /\ ret.err = ""
          /\ ret.quote # NilQuote
          /\ resp.status = 200
          /\ \A j \in Venues :
                ClaimAdapterFails(j) =>
                   /\ prices[j].Error
                   /\ ret.quote.Sources[dexClients[j]] = NilInt
                   /\ resp.body.Sources[dexClients[j]] = <<>>
                   /\ dexClients[j] \notin ClaimQuoteVenues(ret.quote)
                   /\ \A k \in DOMAIN resp.body.Route :
                         resp.body.Route[k].DEX # dexClients[j]

\* C6 witness: the first two adapters failed, the last one yields, and the
\* quote is on the last venue
C6_Witness ==
    /\ RequestAnswered
    /\ ClaimAdapterFails(1)
    /\ ClaimAdapterFails(2)
    /\ ClaimAdapterYields(3)
    /\ resp.status = 200
    /\ ClaimQuoteVenues(ret.quote) = {dexClients[3]}

\* C7: a slot of results is written only by the task of the same index; when
\* GetPrices returns every task has finished, and it returns one result per
\* adapter, result i carrying the venue kind of adapter i and a failure
\* exactly when adapter i failed.
C7_ResultsJoinedInOrder ==
    /\ \A k \in Venues : writer[k] \in {0, k}
    /\ GetPricesReturned =>
          /\ wg = 0
          /\ \A i \in Venues : task[i] = "done"
          /\ Len(prices) = Len(dexClients)
          /\ \A i \in Venues :
                /\ writer[i] = i
                /\ prices[i] # ZeroResult
                /\ prices[i].DEX = dexClients[i]
                /\ prices[i].Error <=> ClaimAdapterFails(i)
                /\ ~prices[i].Error => prices[i].Pair.DEX = dexClients[i]

\* C7 witness: GetPrices has returned after the task of the last adapter
\* finished first, with a failure in the first slot and a success in the
\* last
C7_Witness ==
    /\ pc = "routing"
    /\ firstDone = Len(dexClients)
    /\ prices[1].Error
    /\ ~prices[Len(dexClients)].Error
    /\ prices[Len(dexClients)].AmountOut > 0

\* the request being answered is a later execution of the request recorded
\* in hist: same tokenIn, tokenOut, amountIn and slippageBps (the adapters
\* answer the same in every execution of a behaviour)
ClaimSameRequestAgain ==
    /\ RequestAnswered
    /\ hist.answered
    /\ hist.servedAt < served
    /\ ~cancelled
    /\ hist.tokenIn = tokenIn
    /\ hist.tokenOut = tokenOut
    /\ hist.amountIn = amountIn
    /\ hist.slippageBps = slippageBps

\* C8: two executions of GetSmartQuote with the same tokenIn, tokenOut,
\* amountIn, slippageBps and adapter responses return the same quote or the
\* same error, and the endpoint writes the same response, whatever the order
\* in which the venue tasks completed.
C8_Determinism ==
    ClaimSameRequestAgain =>
        /\ ret.err = hist.ret.err
        /\ ret.quote.AmountOut = hist.ret.quote.AmountOut
        /\ ret.quote.BestRoute = hist.ret.quote.BestRoute
        /\ ret.quote.SplitRoutes = hist.ret.quote.SplitRoutes
        /\ ret.quote.PriceImpact = hist.ret.quote.PriceImpact
        /\ ret.quote.MinAmountOut = hist.ret.quote.MinAmountOut
        /\ ret.quote.Sources = hist.ret.quote.Sources
        /\ ret = hist.ret
        /\ resp = hist.resp

\* C8 witness: the same request answered a second time with a quote, two
\* venues yielding the same positive amountOut, the task of the last adapter
\* having finished first in this execution
C8_Witness ==
    /\ ClaimSameRequestAgain
    /\ ret.err = ""
    /\ ~prices[1].Error
    /\ ~prices[3].Error
    /\ prices[1].AmountOut > 0
    /\ prices[1].AmountOut = prices[3].AmountOut
    /\ firstDone = 3
    /\ ret = hist.ret

\* the cache holds, under some key of venue i, a snapshot of the two tokens
\* of the request in flight, in either order, that has not expired
ClaimLiveSnapshot(i) ==
    \E key \in DOMAIN cache :
        /\ key[2] = dexClients[i]
        /\ {key[3], key[4]} = {tokenIn, tokenOut}
        /\ now < cache[key].expiresAt

\* C13: GetPrices(A, B, _) and GetPrices(B, A, _) use the same cache key for
\* every venue, so a snapshot stored by a request in one direction is a hit
\* for a request in the opposite direction within the TTL: no venue task
\* goes on to its adapter while the cache holds a live snapshot of the two
\* tokens for its venue.
C13_CanonicalCacheKey ==
    \A i \in Venues :
        (pc = "prices" /\ task[i] = "fetch") => ~ClaimLiveSnapshot(i)

\* C14: when the context of a request is cancelled, or its deadline is
\* reached, while GetSmartQuote is in progress, the request fails as a whole
\* and returns no quote, also when some venues had produced a valid result
\* before the cancellation.
C14_CancelledRequestFails ==
    (RequestAnswered /\ cancelled) =>
        /\ ret.err # ""
        /\ ret.quote = NilQuote
        /\ resp.status # 200

\* ------------------------------------------------------------------------
\* Claims on the price endpoint (SpecPrice)
\* ------------------------------------------------------------------------
\* the amounts quoted without error for tokIn -> tokOut and 10^decimals
\* units of tokIn, and the largest of them
ClaimQuoted(tokIn, tokOut) ==
    LET pr == quotes[<<tokIn, tokOut, [m |-> 1, e |-> Decimals(tokIn)]>>]
    IN {pr[i].AmountOut : i \in {k \in DOMAIN pr : ~pr[k].Error}}

ClaimBestOut(tokIn, tokOut) ==
    CHOOSE a \in ClaimQuoted(tokIn, tokOut) :
        \A b \in ClaimQuoted(tokIn, tokOut) : BigCmp(a, b) >= 0

\* the best direct quote tok -> USDC exists and is positive
ClaimDirectPositive(tok) ==
    /\ ClaimQuoted(tok, USDC) # {}
    /\ ClaimBestOut(tok, USDC).m > 0

\* amountOut * 10^12
ClaimDirectPrice(tok) ==
    [m |-> ClaimBestOut(tok, USDC).m, e |-> ClaimBestOut(tok, USDC).e + 12]

\* C15: GetTokenPrice(token) returns 10^18 when token is USDC; otherwise,
\* when the best direct quote token -> USDC for 10^decimals units is
\* positive, that amountOut * 10^12; otherwise, when token is not WETH,
\* floor(bestOut(token -> WETH, 10^decimals) * GetTokenPrice(WETH) / 10^18),
\* an error taking the place of a value whose quote or WETH price does not
\* exist; otherwise (WETH with no positive USDC quote) it fails with an
\* error.
C15_TokenPrice ==
    (pc = "price_done" /\ token # BadParam) =>
        IF token = USDC
        THEN tokenPrice = TokenPriceRet([m |-> 1, e |-> 18], "")
        ELSE IF ClaimDirectPositive(token)
        THEN tokenPrice = TokenPriceRet(ClaimDirectPrice(token), "")
        ELSE IF token # WETH
        THEN IF ClaimQuoted(token, WETH) # {} /\ ClaimDirectPositive(WETH)
             THEN tokenPrice =
                    TokenPriceRet(
                      BigDivExp10(BigMul(ClaimBestOut(token, WETH),
                                         ClaimDirectPrice(WETH)), 18), "")
             ELSE tokenPrice.err # "" /\ tokenPrice.price = NilBig
        ELSE tokenPrice.err # "" /\ tokenPrice.price = NilBig

\* C15 witness: a 6-decimal token without a positive USDC quote, priced
\* through WETH from the larger of two WETH quotes, the division by 10^18
\* leaving a positive price below 1 USD
C15_Witness ==
    /\ pc = "price_done"
    /\ token = USDT
    /\ ~ClaimDirectPositive(USDT)
    /\ Cardinality(ClaimQuoted(USDT, WETH)) >= 2
    /\ tokenPrice.err = ""
    /\ tokenPrice.price.m > 0
    /\ Len(BigDigits(tokenPrice.price)) <= 18

\* the digits of the price returned, with leading zeros up to 19 digits:
\* what stands before the last 18 digits is the integer part
ClaimPriceDigits ==
    LET d == BigDigits(tokenPrice.price)
    IN IF Len(d) >= 19 THEN d ELSE [i \in 1 .. (19 - Len(d)) |-> 0] \o d

\* C16: for every non-negative 18-decimal fixed-point price returned by
\* GetTokenPrice, the priceUSD string of the price endpoint has exactly two
\* digits after the decimal point and equals the price truncated to two
\* decimals, also for prices below 1 USD.
C16_PriceTwoDecimals ==
    (pc = "price_done" /\ resp.status = 200) =>
        LET d      == ClaimPriceDigits
            intLen == Len(d) - 18
        IN resp.body.PriceUSD =
             SubSeq(d, 1, intLen) \o <<DecimalPoint>>
               \o SubSeq(d, intLen + 1, intLen + 2)

\* ------------------------------------------------------------------------
\* Further claims on the router (SpecRouter)
\* ------------------------------------------------------------------------
\* a router operation has returned a quote
QuoteReturned ==
    pc \in {"quote_done", "smart_done", "multihop_done"} /\ ret.err = ""

\* C17: estimateGas returns 150000 for a nil route or a route with no hops
\* and 21000 + 100000*n for a route with n >= 1 hops; every single-path
\* quote from GetSmartQuote reports 121000 and every two-hop quote from
\* GetMultiHopQuote reports 221000.
C17_GasEstimate ==
    /\ estimateGas(NilRoute) = 150000
    /\ estimateGas(Route(<<>>, amountIn, 0, 0)) = 150000
    /\ QuoteReturned =>
          LET n == Len(ret.quote.BestRoute.Hops)
          IN estimateGas(ret.quote.BestRoute) =
               IF n = 0 THEN 150000 ELSE 21000 + 100000 * n
    /\ (pc = "smart_done" /\ ret.err = "" /\ ret.quote.SplitRoutes = <<>>) =>
          /\ Len(ret.quote.BestRoute.Hops) = 1
          /\ ret.quote.GasEstimate = 121000
    /\ (pc = "multihop_done" /\ ret.err = ""
          /\ Len(ret.quote.BestRoute.Hops) = 2) =>
          ret.quote.GasEstimate = 221000

\* C17 witness: GetMultiHopQuote returned a two-hop quote
C17_Witness ==
    /\ pc = "multihop_done"
    /\ ret.err = ""
    /\ Len(ret.quote.BestRoute.Hops) = 2
    /\ ret.quote.GasEstimate = 221000

\* ------------------------------------------------------------------------
\* Claims about the price-impact warning (SpecImpact)
\* ------------------------------------------------------------------------
\* the full-width call under way quotes one venue of fee 30 for a tenth of
\* its input-side reserve
ClaimTenthOfReserve ==
    /\ pc = "wide_done"
    /\ p.Fee = 30
    /\ WideMulSmall(amountIn, 10) =
         (IF tokenIn = TokenA THEN p.Reserve0 ELSE p.Reserve1)

\* both reserves of the venue lie between 10^lo and 10^hi
ClaimReservesWithin(lo, hi) ==
    \A r \in {p.Reserve0, p.Reserve1} :
        WideCmp(r, WideExp10(lo)) >= 0 /\ WideCmp(r, WideExp10(hi)) <= 0

\* a quote was returned by GetSmartQuote
ClaimSmartQuoted == pc \in {"smart_done", "wide_done"} /\ ret.err = ""

ClaimWarned == ret.quote.PriceWarning # <<>>

\* C18 as stated: a request for a tenth of the input-side reserve of a single
\* fee-30 venue with any positive reserves yields priceImpact > 100 and a
\* warning, and every quote of GetSmartQuote carries the warning exactly when
\* its priceImpact exceeds 100
C18_AnyReserves ==
    /\ ClaimTenthOfReserve =>
         ret.err = "" /\ ret.quote.PriceImpact > 100 /\ ClaimWarned
    /\ ClaimSmartQuoted => (ClaimWarned <=> ret.quote.PriceImpact > 100)

\* C18 amended: the request for a tenth of the input-side reserve yields
\* priceImpact > 100 and a warning when both reserves lie between 10^18 and
\* 10^24, that is at least 1000 probes of 10^15; every quote of GetSmartQuote
\* carries the warning exactly when its priceImpact exceeds 100
C18_HighImpactWarning ==
    /\ ClaimTenthOfReserve /\ ClaimReservesWithin(18, 24) =>
         ret.err = "" /\ ret.quote.PriceImpact > 100 /\ ClaimWarned
    /\ ClaimSmartQuoted => (ClaimWarned <=> ret.quote.PriceImpact > 100)

\* the example of the specification: reserves (10^21, 10^21), amountIn 10^20
C18_Witness ==
    /\ ClaimTenthOfReserve
    /\ p.Reserve0 = WideExp10(21)
    /\ p.Reserve1 = WideExp10(21)
    /\ amountIn = WideExp10(20)
    /\ ret.quote.PriceImpact > 100
    /\ ClaimWarned

\* ------------------------------------------------------------------------
\* Claims about GetMultiHopQuote (SpecRouter)
\* ------------------------------------------------------------------------
ClaimMultiHopReturned == pc = "multihop_done"

\* the direct quote of the call: GetQuote on the same results
ClaimDirect == GetQuote(prices, tokenIn, tokenOut, amountIn)

\* the intermediates a two-hop route may go through
ClaimIntermediates ==
    {intermediateTokens[k] : k \in 1 .. Len(intermediateTokens)}
        \ {tokenIn, tokenOut}

\* what venue i yields for amt of tIn on the snapshot sn[i]: 0 when it failed
ClaimHopOut(sn, i, amt, tIn) ==
    IF sn[i] = ErrPair THEN 0 ELSE GetAmountOut(sn[i], amt, tIn)

\* the outputs of the two-hop candidates tokenIn -> mid -> tokenOut: venue j
\* is given what venue i yielded
ClaimTwoHopOutputs ==
    {ClaimHopOut(hopSnaps[2], j,
                 ClaimHopOut(hopSnaps[1], i, amountIn, tokenIn), mid) :
        i \in Venues, j \in Venues, mid \in ClaimIntermediates} \ {0}

ClaimCandidateOutputs ==
    ClaimTwoHopOutputs
        \cup (IF ClaimDirect.err = "" THEN {ClaimDirect.quote.AmountOut} ELSE {})

\* C19: GetMultiHopQuote fails exactly when there is neither a direct quote
\* nor a two-hop candidate; otherwise its amountOut is the largest of the
\* direct amountOut and the two-hop outputs, so at least the direct one; a
\* two-hop route goes through an intermediate other than tokenIn and
\* tokenOut, and the first hop's tokenOut is the second hop's tokenIn
C19_MultiHopBest ==
    ClaimMultiHopReturned =>
        /\ ret.err # "" <=> ClaimCandidateOutputs = {}
        /\ ret.err = "" =>
             /\ ret.quote.AmountOut \in ClaimCandidateOutputs
             /\ \A out \in ClaimCandidateOutputs : ret.quote.AmountOut >= out
             /\ ClaimDirect.err = "" =>
                  ret.quote.AmountOut >= ClaimDirect.quote.AmountOut
             /\ Len(ret.quote.BestRoute.Hops) \in {1, 2}
             /\ Len(ret.quote.BestRoute.Hops) = 1 => ret.quote = ClaimDirect.quote
             /\ Len(ret.quote.BestRoute.Hops) = 2 =>
                  LET hops == ret.quote.BestRoute.Hops
                  IN /\ hops[1].TokenIn = tokenIn
                     /\ hops[1].TokenOut = hops[2].TokenIn
                     /\ hops[2].TokenOut = tokenOut
                     /\ hops[1].TokenOut \in ClaimIntermediates
                     /\ ret.quote.AmountOut \in ClaimTwoHopOutputs

\* a two-hop route is returned that beats an existing direct quote, the list
\* of intermediates naming tokenIn and tokenOut as well
C19_Witness ==
    /\ ClaimMultiHopReturned
    /\ ret.err = ""
    /\ ClaimDirect.err = ""
    /\ Len(intermediateTokens) = 3
    /\ Len(ret.quote.BestRoute.Hops) = 2
    /\ ret.quote.AmountOut > ClaimDirect.quote.AmountOut

\* ------------------------------------------------------------------------
\* Claims about the UniswapV3 venue (Spec)
\* ------------------------------------------------------------------------
ClaimV3Venues == {i \in Venues : dexClients[i] = "uniswap_v3"}

\* the V3 task leaves its cache lookup for the adapter (or the process ends)
ClaimV3LookupMisses ==
    \A i \in ClaimV3Venues :
        (task[i] = "get" /\ task'[i] # "get") => task'[i] \in {"fetch", "idle"}

\* C20: the price service never computes the amountOut of a UniswapV3 venue
\* from the (0, 0) reserves of its snapshot: the venue task always goes from
\* the cache lookup to the adapter, a cached V3 snapshot being a miss, and
\* the amountOut GetPrices returns for a V3 venue whose pool is live is the
\* positive amount of the quoter
C20_V3QuoterResult ==
    /\ [](\A i \in ClaimV3Venues :
            (GetPricesReturned /\ chain[i] # ErrPair) =>
                ~prices[i].Error /\ prices[i].AmountOut > 0)
    /\ [][ClaimV3LookupMisses]_vars

\* ------------------------------------------------------------------------
\* Claims about the locking of InMemoryCache (Spec)
\* ------------------------------------------------------------------------
\* C21: the accesses of the venue tasks to the pairs mapping are serialised:
\* never can the access of one task run at the same time as the write of
\* another, and the runtime never aborts the process for a concurrent map
\* access
C21_CacheSerialised ==
    /\ \A i \in Venues : ~Racing(i)
    /\ pc # "crashed"

\* ------------------------------------------------------------------------
\* Claims about the chain client (SpecChain)
\* ------------------------------------------------------------------------
\* C22: at every moment at most 10 contract calls issued through the chain
\* client are in flight, whoever issued them
C22_GlobalRpcCap == rlock <= semaphoreSize

\* the batch has returned
ClaimMulticallReturned == pc = "multicall_done"

\* the calls of the batch that failed
ClaimFailedCalls == {i \in DOMAIN task : task[i] = "failed"}

\* C23: when Multicall returns every call has completed; results has one
\* entry for each call, that of calls[i] at i: its bytes when the call
\* succeeded, nil when it failed; the error is nil exactly when no call
\* failed, and otherwise the error of the failed call with the lowest index,
\* the first the loop over errs meets
C23_BatchResult ==
    ClaimMulticallReturned =>
      /\ \A i \in DOMAIN task : task[i] \in {"ok", "failed"}
      /\ DOMAIN ret.results = DOMAIN task
      /\ \A i \in DOMAIN task :
           ret.results[i] = IF task[i] = "ok" THEN <<"bytes", i>> ELSE NilValue
      /\ (ret.err = NilValue) <=> (ClaimFailedCalls = {})
      /\ ClaimFailedCalls # {} =>
           /\ ret.err[1] = "error"
           /\ ret.err[2] \in ClaimFailedCalls
           /\ \A i \in ClaimFailedCalls : ret.err[2] <= i

\* a batch of three calls returns the bytes of the first call and the error
\* of the second, the third having failed as well
C23_Witness ==
    /\ ClaimMulticallReturned
    /\ Len(task) = 3
    /\ task = <<"ok", "failed", "failed">>
    /\ ret.results[1] = <<"bytes", 1>>
    /\ ret.err = <<"error", 2>>

\* ------------------------------------------------------------------------
\* Claims about the token order of the V2 adapter (SpecSort)
\* ------------------------------------------------------------------------
\* the adapter has returned a snapshot
ClaimSnapshotBuilt == pc = "sort_done" /\ p.DEX = "uniswap_v2"

\* the token of the request whose address is the smaller 20-byte value
ClaimSmallerToken ==
    IF StringLess(tokenIn.digits, tokenOut.digits) THEN tokenIn ELSE tokenOut

\* C24: the snapshot's token0 is the token of the request with the smaller
\* address, token1 the other, and reserve0, the first word of getReserves,
\* which the pair contract keeps for the token with the smaller address, is
\* therefore the reserve of token0
C24_TokenOrder ==
    ClaimSnapshotBuilt =>
      /\ p.Token0 = ClaimSmallerToken
      /\ p.Token1 = (IF ClaimSmallerToken = tokenIn THEN tokenOut ELSE tokenIn)
      /\ p.Reserve0 = chain[1]
      /\ p.Reserve1 = chain[2]

\* ------------------------------------------------------------------------
\* Claims about the snapshots the cache holds (Spec)
\* ------------------------------------------------------------------------
\* the venue whose adapter fetched the snapshot stored under key k
ClaimVenueOfKey(k) == CHOOSE i \in Venues : dexClients[i] = k[2]

\* C25: no step of the quote pipeline (the venue tasks of GetPrices, the
\* routing with its split evaluation and price-impact computation) changes
\* a snapshot the cache holds: every entry carries the tokens, reserves, fee
\* and venue of the snapshot its adapter returned and SetPair stored, and a
\* venue task that finished without error, from a hit or from a fetch,
\* carries that snapshot too
C25_SnapshotsImmutable ==
    /\ \A k \in DOMAIN cache : cache[k].pair = chain[ClaimVenueOfKey(k)]
    /\ \A i \in Venues :
          (pc = "prices" /\ task[i] = "done" /\ ~results[i].Error)
             => results[i].Pair = chain[i]

\* a second request for the same tokens has been answered with a split quote
\* within the TTL of the entries the first one stored, after the first was
\* answered with a split quote too
C25_Witness ==
    /\ pc = "responded"
    /\ served = 2
    /\ hist.answered
    /\ hist.servedAt = 1
    /\ hist.tokenIn = tokenIn
    /\ hist.ret.err = ""
    /\ hist.ret.quote.SplitRoutes # <<>>
    /\ ret.err = ""
    /\ ret.quote.SplitRoutes # <<>>
    /\ now < cacheTTL
    /\ Cardinality(DOMAIN cache) >= 2

\* C26: a price GetTokenPrice returns without an error is strictly positive
\* (a token without a positive USDC quote whose quotes in WETH are all 0
\* gets an error, not the price 0)
C26_PricePositive ==
    (pc = "price_done" /\ token # BadParam /\ tokenPrice.err = "")
        => tokenPrice.price.m > 0

\* the tokens GetTokenPrice was called for while the request was served
ClaimPriceCalls == GetTokenPriceTraced(token, quotes, 1).calls

\* C27: GetTokenPrice returns for every token and every answer of the
\* venues, having made at most one call of itself, which is for WETH and
\* makes none: the calls are <<token>> or <<token, WETH>> with token # WETH
C27_RecursionDepth ==
    (pc = "price_done" /\ token # BadParam) =>
        /\ Len(ClaimPriceCalls) <= 2
        /\ ClaimPriceCalls[1] = token
        /\ Len(ClaimPriceCalls) = 2 =>
              (ClaimPriceCalls[2] = WETH /\ token # WETH)

\* a token priced through WETH: the second call, for WETH, has no positive
\* USDC quote either and ends with an error instead of a third call
C27_Witness ==
    /\ pc = "price_done"
    /\ token = USDT
    /\ ClaimPriceCalls = <<USDT, WETH>>
    /\ ~ClaimDirectPositive(WETH)
    /\ tokenPrice.err = "failed to get WETH price"

\* ------------------------------------------------------------------------
\* Claims about the legs of an adopted split (SpecRouter)
\* ------------------------------------------------------------------------
\* C28: a split GetSmartQuote adopts has exactly two legs, the first on a
\* venue with the highest single-venue amountOut and the second on a venue
\* with the highest among the others, with percentages 50/50, 60/40, 70/30
\* or 80/20, and both legs have amountIn > 0 and amountOut > 0 (no split is
\* adopted with a leg that swaps nothing or yields nothing)
C28_SplitLegs ==
    (SmartQuoteReturned /\ Legs # <<>>) =>
        /\ Len(Legs) = 2
        /\ <<Legs[1].Percentage, Legs[2].Percentage>>
              \in {<<50, 50>>, <<60, 40>>, <<70, 30>>, <<80, 20>>}
        /\ \A k \in 1 .. 2 : Legs[k].AmountIn > 0 /\ Legs[k].AmountOut > 0
        /\ \E i \in ClaimValidVenues, j \in ClaimValidVenues :
              /\ i # j
              /\ Legs[1].Route.Hops[1].Pair = prices[i].Pair
              /\ Legs[2].Route.Hops[1].Pair = prices[j].Pair
              /\ prices[i].AmountOut = ClaimBestSingle
              /\ \A k \in ClaimValidVenues \ {i} :
                    prices[j].AmountOut >= prices[k].AmountOut

\* a split with unequal percentages was adopted while a third venue, whose
\* amountOut is positive too, was left out
C28_Witness ==
    /\ SmartQuoteReturned
    /\ Legs # <<>>
    /\ Legs[1].Percentage > 50
    /\ Cardinality(ClaimValidVenues) = 3

\* ------------------------------------------------------------------------
\* Claims about what GetPrices writes to the cache (Spec)
\* ------------------------------------------------------------------------
\* the key of venue task i of the request in flight
ClaimKey(i) == PairCacheKey(dexClients[i], tokenIn, tokenOut)

\* the cache holds an entry for task i that has not expired
ClaimFresh(i) ==
    ClaimKey(i) \in DOMAIN cache /\ now < cache[ClaimKey(i)].expiresAt

\* a venue task that finished without error leaves the snapshot it returned
\* in the cache, under the key of the request
ClaimFetchedIsCached ==
    \A i \in Venues :
        (pc \in {"prices", "routing", "responded"}
           /\ task[i] = "done" /\ ~results[i].Error)
        => /\ ClaimKey(i) \in DOMAIN cache
           /\ cache[ClaimKey(i)].pair = results[i].Pair

\* a step writes an entry only as the SetPair of a task whose adapter
\* returned a snapshot; a task whose adapter failed leaves the cache as it
\* was; and a task that finds an entry that has not expired does not go on
\* to the adapter
ClaimCacheSteps ==
    /\ \A k \in DOMAIN cache' :
          (k \notin DOMAIN cache \/ cache'[k] # cache[k]) =>
             \E i \in Venues :
                /\ task[i] = "set"
                /\ task'[i] = "done"
                /\ k = ClaimKey(i)
                /\ snaps[i] # ErrPair
                /\ cache'[k].pair = snaps[i]
    /\ \A i \in Venues :
          (pc = "prices" /\ task[i] = "fetch" /\ task'[i] = "done")
             => cache' = cache
    /\ \A i \in Venues :
          (pc = "prices" /\ task[i] = "get" /\ ClaimFresh(i))
             => task'[i] # "fetch"

\* C29: GetPrices writes the cache only after an adapter fetch that
\* succeeded, an adapter error leaves the cache unchanged, and once a fetch
\* has succeeded the snapshot is in the cache, so that a later lookup for
\* the same venue, tokenIn and tokenOut before the entry expires is served
\* from it without a call of the adapter
C29_CacheAfterFetch == []ClaimFetchedIsCached /\ [][ClaimCacheSteps]_vars

\* ------------------------------------------------------------------------
\* Claims about the bounds of a constant-product quote (SpecMath)
\* ------------------------------------------------------------------------
\* C30: on positive reserves, for amountIn > 0 and every fee of [0, 10000],
\* GetAmountOut returns r with 0 <= r < reserveOut (the pool is never
\* drained), and a larger amountIn on the same pair never returns less
C30_NeverDrains ==
    (pc = "math_done" /\ ClaimPositiveReserves
       /\ amountIn # NilInt /\ amountIn > 0 /\ p.Fee \in 0 .. 10000) =>
        /\ 0 <= amountOut
        /\ amountOut < ClaimReserveOut
        /\ \A a2 \in amountIn .. (MaxMathAmount + 1) :
              GetAmountOut(p, a2, tokenIn) >= amountOut

\* a call that takes all but one unit of the output-side reserve, and more
\* than a smaller amountIn on the same pair would
C30_Witness ==
    /\ pc = "math_done"
    /\ ClaimPositiveReserves
    /\ amountIn # NilInt /\ amountIn > 1
    /\ ClaimReserveOut > 2
    /\ amountOut = ClaimReserveOut - 1
    /\ GetAmountOut(p, amountIn - 1, tokenIn) < amountOut

====
